---- MODULE Spec2Model ----
(***************************************************************************)
(* Long-term-memory pipeline of nebulus-gantry: the per-user knowledge     *)
(* graph (backend/services/graph_service.py) and the chat turn that reads  *)
(* it, streams the generation and persists afterwards                      *)
(* (backend/routers/chat.py, send_message and its generate()).             *)
(***************************************************************************)
EXTENDS Integers, Sequences, FiniteSets, TLC

VARIABLES
    graph,      \* GraphService.graph: the in-memory nx.DiGraph
    call,       \* the last GraphService operation and its arguments
    related,    \* the list the last get_related call returned
    nFacts,     \* number of add_fact calls made so far
    graphFile,  \* the user's graph file user_<id>_graph.json
    pc,         \* position of the turn in send_message / generate()
    llm,        \* which stream_chat the turn's LLMService() resolves to
    content,    \* request.content
    document_scope,   \* conversation.document_scope
    messages,   \* the message store of the conversation
    vectors,    \* the user's message namespace in the vector engine
    memory_service,   \* None, or the MemoryService and its availability
    graph_service,    \* None, or "created" (its graph is the variable graph)
    similar_messages,
    related_facts,
    rag_context,
    lookups,    \* what each RETRIEVING collaborator did in this turn
    llm_messages,     \* the message list handed to stream_chat
    full_response,    \* generate()'s buffer
    sent,       \* fragments generate() has yielded to the caller
    pending,    \* entities of the response still to be added as facts
    log,        \* calls on external collaborators, in order
    escaped,    \* how an exception left the handler or the stream, if any
    saved,      \* the graph as of the last save() that succeeded
    files,      \* the data directory: graph file of each user, by path
    chroma,     \* the vector engine: records of each namespace, by name
    collections,      \* rows of the collections table
    documents,  \* rows of the documents table
    nOps,       \* number of requests served so far
    turns       \* concurrent turns of one user: position and GraphService of each

graphVars == <<graph, call, related, nFacts>>
turnVars == <<pc, llm, content, document_scope, messages, vectors, memory_service,
              graph_service, similar_messages, related_facts, rag_context,
              lookups, llm_messages, full_response, sent, pending, log, escaped>>
storeVars == <<saved, files, chroma, collections, documents, nOps, turns>>
vars == <<graphVars, graphFile, turnVars, storeVars>>

(***************************************************************************)
(* Bounds                                                                  *)
(***************************************************************************)
MaxFacts == 3
MaxHops == 2

None == "None"

(***************************************************************************)
(* Values the graph operations are exercised with                          *)
(***************************************************************************)
Entities == {"A", "B", "C"}
QueryEntities == Entities \cup {"Z"}
Rels == {"knows", "works_with"}
TypeKeys == {"entity1_type", "entity2_type"}
EmptyDict == [k \in {} |-> None]
FactEntities == {"A", "B"}
Metadatas ==
    { EmptyDict,
      [subject |-> "s1"],
      [subject |-> "s2", timestamp |-> "t1"],
      [entity1_type |-> "person", timestamp |-> "t2"],
      [relationship |-> "likes"] }

(***************************************************************************)
(* nx.DiGraph: nodes with attributes, and edges kept in insertion order    *)
(* (out_edges and in_edges iterate adjacency in insertion order); one      *)
(* attribute dict per ordered pair.                                        *)
(***************************************************************************)
EmptyGraph ==
    [nodes |-> <<>>, ntype |-> EmptyDict, edges |-> <<>>, attrs |-> EmptyDict]

NodeSet(g) == {g.nodes[i] : i \in DOMAIN g.nodes}

add_node(g, n) ==
    IF n \in NodeSet(g) THEN g ELSE [g EXCEPT !.nodes = Append(@, n)]

Get(d, k, default) == IF k \in DOMAIN d THEN d[k] ELSE default

Without(d, ks) == [k \in (DOMAIN d) \ ks |-> d[k]]

\* dict.update: the keys of new override those of old, the others stay
Update(old, new) == new @@ old

HasEdge(g, e) == e \in DOMAIN g.attrs

\* DiGraph.add_edge(u, v, **attr): a new edge gets attr, an existing edge has
\* its attribute dict updated with attr
add_edge_replacing(g, u, v, attr) ==
    IF HasEdge(g, <<u, v>>)
    THEN [g EXCEPT !.attrs = [@ EXCEPT ![<<u, v>>] = attr]]
    ELSE [add_node(add_node(g, u), v) EXCEPT
                   !.edges = Append(@, <<u, v>>),
                   !.attrs = (<<u, v>> :> attr) @@ @]

add_edge(g, u, v, attr) ==
    IF HasEdge(g, <<u, v>>)
    THEN [g EXCEPT !.attrs = [@ EXCEPT ![<<u, v>>] = Update(@, attr)]]
    ELSE [add_node(add_node(g, u), v) EXCEPT
                   !.edges = Append(@, <<u, v>>),
                   !.attrs = (<<u, v>> :> attr) @@ @]

SetType(g, n, t) ==
    IF t = None THEN g ELSE [g EXCEPT !.ntype = (n :> t) @@ @]

add_fact(g, entity1, relationship, entity2, metadata) ==
    LET entity1_type == Get(metadata, "entity1_type", None)
        entity2_type == Get(metadata, "entity2_type", None)
        rest == Without(metadata, TypeKeys)
        g1 == SetType(add_node(g, entity1), entity1, entity1_type)
        g2 == SetType(add_node(g1, entity2), entity2, entity2_type)
        edge_attrs == Update([relationship |-> relationship], rest)
    IN  add_edge(g2, entity1, entity2, edge_attrs)

(***************************************************************************)
(* get_related: levelled BFS over outgoing then incoming edges             *)
(***************************************************************************)
out_edges(g, n) == SelectSeq(g.edges, LAMBDA e : e[1] = n)
in_edges(g, n) == SelectSeq(g.edges, LAMBDA e : e[2] = n)

Record(g, current_entity, e, other) ==
    [entity |-> current_entity,
     relationship |-> Get(g.attrs[e], "relationship", "related_to"),
     connected_entity |-> other]

\* one of the two inner for-loops: st is (visited, next_frontier, related)
RECURSIVE ScanEdges(_, _, _, _, _)
ScanEdges(g, es, current_entity, outgoing, st) ==
    IF es = <<>> THEN st
    ELSE LET e == Head(es)
             other == IF outgoing THEN e[2] ELSE e[1]
         IN  IF other \in st.visited
             THEN ScanEdges(g, Tail(es), current_entity, outgoing, st)
             ELSE ScanEdges(g, Tail(es), current_entity, outgoing,
                    [visited |-> st.visited \cup {other},
                     next_frontier |-> Append(st.next_frontier, other),
                     related |-> Append(st.related,
                                        Record(g, current_entity, e, other))])

RECURSIVE ScanFrontier(_, _, _)
ScanFrontier(g, current_frontier, st) ==
    IF current_frontier = <<>> THEN st
    ELSE LET current_entity == Head(current_frontier)
             st1 == ScanEdges(g, out_edges(g, current_entity), current_entity, TRUE, st)
             st2 == ScanEdges(g, in_edges(g, current_entity), current_entity, FALSE, st1)
         IN  ScanFrontier(g, Tail(current_frontier), st2)

RECURSIVE HopLoop(_, _, _, _, _)
HopLoop(g, current_frontier, visited, rel, hops) ==
    IF hops <= 0 THEN rel
    ELSE LET st == ScanFrontier(g, current_frontier,
                     [visited |-> visited, next_frontier |-> <<>>, related |-> rel])
         IN  HopLoop(g, st.next_frontier, st.visited, st.related, hops - 1)

get_related_extra_hop(g, entity, hops) ==
    IF entity \notin NodeSet(g) THEN <<>>
    ELSE HopLoop(g, <<entity>>, {entity}, <<>>, hops + 1)

get_related(g, entity, hops) ==
    IF entity \notin NodeSet(g) THEN <<>>
    ELSE HopLoop(g, <<entity>>, {entity}, <<>>, hops)

(***************************************************************************)
(* What outlives a request: the graph files of the data directory, the     *)
(* namespaces of the vector engine, the collections and documents tables.  *)
(***************************************************************************)
Users == {1, 2}

\* f"user_{user_id}_graph.json", f"user_{user_id}_messages",
\* f"user_{user_id}_documents"
_get_graph_path(user_id) == <<"user", user_id, "graph.json">>
messages_name(user_id) == <<"user", user_id, "messages">>
\* one documents namespace for all users
shared_collection_name(user_id) == <<"user", 0, "documents">>
_get_collection_name(user_id) == <<"user", user_id, "documents">>

NoFile == [state |-> "missing"]
\* no concurrent turn is under way
NoTurns == <<>>
NoFiles == [p \in {_get_graph_path(u) : u \in Users} |-> NoFile]
EmptyChroma ==
    [n \in {messages_name(u) : u \in Users} \cup
            {_get_collection_name(u) : u \in Users} |-> {}]

\* nothing is stored
StoreIdle ==
    /\ saved = EmptyGraph
    /\ files = NoFiles
    /\ chroma = EmptyChroma
    /\ collections = {}
    /\ documents = {}
    /\ nOps = 0
    /\ turns = NoTurns

(***************************************************************************)
(* GraphService driven by a caller: add_fact and get_related calls         *)
(***************************************************************************)
NoCall == [op |-> "none"]

NoLookups == [memory |-> "pending", hits |-> <<>>, graph |-> "pending",
              rag |-> "pending", rag_text |-> <<>>,
              persona |-> "pending", model |-> "pending"]

\* no turn is running
TurnIdle ==
    /\ pc = "idle"
    /\ llm = None
    /\ content = <<>>
    /\ document_scope = <<>>
    /\ messages = <<>>
    /\ vectors = {}
    /\ memory_service = None
    /\ graph_service = None
    /\ similar_messages = <<>>
    /\ related_facts = <<>>
    /\ rag_context = <<>>
    /\ lookups = NoLookups
    /\ llm_messages = <<>>
    /\ full_response = <<>>
    /\ sent = <<>>
    /\ pending = <<>>
    /\ log = <<>>
    /\ escaped = None

\* no caller drives the GraphService directly
GraphIdle ==
    /\ graph = EmptyGraph
    /\ call = NoCall
    /\ related = <<>>
    /\ nFacts = 0

GraphInit ==
    /\ GraphIdle
    /\ graphFile = NoFile
    /\ TurnIdle
    /\ StoreIdle

AddFact(src, rel, dst, md) ==
    /\ nFacts < MaxFacts
    /\ graph' = add_fact(graph, src, rel, dst, md)
    /\ call' = [op |-> "add_fact", src |-> src, rel |-> rel, dst |-> dst,
                metadata |-> md, before |-> graph]
    /\ related' = <<>>
    /\ nFacts' = nFacts + 1
    /\ UNCHANGED <<storeVars, graphFile, turnVars>>

GetRelated(entity, hops) ==
    /\ related' = get_related(graph, entity, hops)
    /\ call' = [op |-> "get_related", entity |-> entity, hops |-> hops]
    /\ UNCHANGED <<storeVars, graph, nFacts, graphFile, turnVars>>

GraphNext ==
    \/ \E src \in Entities, dst \in Entities, rel \in Rels :
          AddFact(src, rel, dst, EmptyDict)
    \/ \E entity \in QueryEntities, hops \in 0..MaxHops : GetRelated(entity, hops)

GraphSpec == GraphInit /\ [][GraphNext]_vars

\* add_fact calls with metadata, on one or two entities
FactNext ==
    \E src \in FactEntities, dst \in FactEntities, rel \in Rels, md \in Metadatas :
        AddFact(src, rel, dst, md)

FactSpec == GraphInit /\ [][FactNext]_vars

(***************************************************************************)
(* Undirected distance, defined on the edge set and independent of the BFS *)
(***************************************************************************)
Adjacent(g, m, n) == HasEdge(g, <<m, n>>) \/ HasEdge(g, <<n, m>>)

RECURSIVE Ball(_, _, _)
Ball(g, entity, k) ==
    IF k = 0 THEN {entity}
    ELSE LET b == Ball(g, entity, k - 1)
         IN  b \cup {n \in NodeSet(g) : \E m \in b : Adjacent(g, m, n)}

Dist(g, entity, n) ==
    LET ks == {k \in 0..Len(g.nodes) : n \in Ball(g, entity, k)}
    IN  IF ks = {} THEN -1
        ELSE CHOOSE k \in ks : \A j \in ks : k <= j

Connected(rs) == {rs[i].connected_entity : i \in DOMAIN rs}

\* C8: get_related(entity, hops) returns exactly one record per node whose
\* undirected distance from entity is between 1 and hops; the
\* connected_entity values are pairwise distinct and never the start
\* entity; records of hop k come before records of hop k+1; an entity that
\* is not in the graph yields the empty list.
C8_GetRelatedOneRecordPerNodeWithinHops ==
    call.op = "get_related" =>
        IF call.entity \notin NodeSet(graph) THEN related = <<>>
        ELSE /\ Connected(related) =
                  {n \in NodeSet(graph) : Dist(graph, call.entity, n) \in 1..call.hops}
             /\ Cardinality(Connected(related)) = Len(related)
             /\ call.entity \notin Connected(related)
             /\ \A i \in DOMAIN related, j \in DOMAIN related :
                  i < j => Dist(graph, call.entity, related[i].connected_entity)
                             <= Dist(graph, call.entity, related[j].connected_entity)

\* a two-hop query that found a node at distance 2 after one at distance 1,
\* in a graph where the start entity has an edge in each direction
C8_Witness ==
    /\ call.op = "get_related"
    /\ call.hops = 2
    /\ Len(related) = 2
    /\ Dist(graph, call.entity, related[2].connected_entity) = 2
    /\ \E n \in NodeSet(graph) : HasEdge(graph, <<n, call.entity>>) /\ n # call.entity

\* C9: every record returned by get_related preserves the direction of the
\* edge it came from: the graph holds the directed edge
\* entity -> connected_entity, and that edge carries the record's
\* relationship label.
C9_RecordsPreserveEdgeDirection ==
    call.op = "get_related" =>
        \A i \in DOMAIN related :
            /\ HasEdge(graph, <<related[i].entity, related[i].connected_entity>>)
            /\ graph.attrs[<<related[i].entity, related[i].connected_entity>>].relationship
                  = related[i].relationship

CountEdge(g, e) == Cardinality({i \in DOMAIN g.edges : g.edges[i] = e})

PriorAttrs(g, e) == IF HasEdge(g, e) THEN g.attrs[e] ELSE EmptyDict

CallAttrs == Update([relationship |-> call.rel], Without(call.metadata, TypeKeys))

\* C10 as claimed: after add_fact(src, rel, dst, metadata) the graph holds
\* exactly one edge src -> dst whose attributes are exactly
\* {relationship: rel} plus the metadata of this call, entity types
\* excluded; nothing of an earlier call for the same pair remains.
C10_AddFactReplacesAttributes ==
    call.op = "add_fact" =>
        /\ CountEdge(graph, <<call.src, call.dst>>) = 1
        /\ graph.attrs[<<call.src, call.dst>>] = CallAttrs

\* C10 amended: after add_fact the graph holds exactly one edge src -> dst
\* whose attributes are the attributes the edge had before the call (none
\* for a new edge) overridden key by key by {relationship: rel} and the
\* metadata of this call, entity types excluded: a key set by an earlier
\* call and not given again keeps its earlier value.
C10_AddFactUpdatesAttributes ==
    call.op = "add_fact" =>
        /\ CountEdge(graph, <<call.src, call.dst>>) = 1
        /\ graph.attrs[<<call.src, call.dst>>] =
              Update(PriorAttrs(call.before, <<call.src, call.dst>>), CallAttrs)
        /\ TypeKeys \cap DOMAIN graph.attrs[<<call.src, call.dst>>] = {}

\* a repeated add_fact for a pair whose edge carries a metadata key that
\* this call does not give
C10_Witness ==
    /\ call.op = "add_fact"
    /\ HasEdge(call.before, <<call.src, call.dst>>)
    /\ \E k \in DOMAIN call.before.attrs[<<call.src, call.dst>>] :
          k \notin DOMAIN CallAttrs

(***************************************************************************)
(* save() and _load_or_create_graph(): node-link JSON.  node_link_data     *)
(* lists the nodes in node order and the links in G.edges order (by source *)
(* node, then adjacency order); node_link_graph adds them back in that     *)
(* order.                                                                  *)
(***************************************************************************)
\* a link is {**attributes, "source": u, "target": v}: an edge attribute named
\* source or target is overwritten by the endpoint
RECURSIVE LinksFrom(_, _)
LinksFrom(g, ns) ==
    IF ns = <<>> THEN <<>>
    ELSE LET es == out_edges(g, Head(ns))
         IN  [i \in DOMAIN es |->
                 [source |-> es[i][1], target |-> es[i][2]] @@ g.attrs[es[i]]]
             \o LinksFrom(g, Tail(ns))

\* a node is {**attributes, "id": n}
node_link_data(g) ==
    [nodes |-> [i \in DOMAIN g.nodes |->
                  [id |-> g.nodes[i]] @@
                  (IF g.nodes[i] \in DOMAIN g.ntype
                   THEN [type |-> g.ntype[g.nodes[i]]] ELSE EmptyDict)],
     links |-> LinksFrom(g, g.nodes)]

RECURSIVE AddNodes(_, _)
AddNodes(g, ns) ==
    IF ns = <<>> THEN g
    ELSE AddNodes(SetType(add_node(g, Head(ns).id), Head(ns).id,
                          Get(Head(ns), "type", None)),
                  Tail(ns))

\* every key of a link except source and target is an edge attribute
RECURSIVE AddLinks(_, _)
AddLinks(g, ls) ==
    IF ls = <<>> THEN g
    ELSE AddLinks(add_edge(g, Head(ls).source, Head(ls).target,
                           Without(Head(ls), {"source", "target"})),
                  Tail(ls))

node_link_graph(data) == AddLinks(AddNodes(EmptyGraph, data.nodes), data.links)

\* a missing file and a file that does not parse both give a new graph
_load_or_create_graph(file) ==
    IF file.state = "ok" THEN node_link_graph(file.data) ELSE EmptyGraph

\* open(path, "w") truncates the file before json.dump writes it
save(file, g, outcome) ==
    CASE outcome = "ok" -> [state |-> "ok", data |-> node_link_data(g)]
      [] outcome = "open_fails" -> file
      [] outcome = "dump_fails" -> [state |-> "malformed"]

\* lines 313-315: the except branch logs and re-raises
save_logs_only(outcome) == FALSE

save_raises(outcome) == outcome # "ok"

(***************************************************************************)
(* One user's GraphService over time: facts are added, the graph is saved, *)
(* and a fresh GraphService loads what the file holds.                     *)
(***************************************************************************)
PersistMetadatas ==
    { EmptyDict, [entity1_type |-> "person"], [source |-> "email"] }

MalformedFile == [state |-> "malformed"]

PersistInit ==
    /\ GraphIdle
    /\ graphFile \in {NoFile, MalformedFile}
    /\ TurnIdle
    /\ StoreIdle

Save(outcome) ==
    /\ graphFile' = save(graphFile, graph, outcome)
    /\ saved' = IF outcome = "ok" THEN graph ELSE saved
    /\ call' = [op |-> "save", raised |-> save_raises(outcome), before |-> graphFile]
    /\ related' = <<>>
    /\ UNCHANGED <<graph, nFacts, turnVars, files, chroma, collections, documents, nOps,
                   turns>>

\* GraphService(user_id): lines 58-60
Load ==
    /\ graph' = _load_or_create_graph(graphFile)
    /\ call' = [op |-> "load", before |-> graph]
    /\ related' = <<>>
    /\ UNCHANGED <<nFacts, graphFile, turnVars, storeVars>>

PersistNext ==
    \/ \E src \in FactEntities, dst \in FactEntities, md \in PersistMetadatas :
          AddFact(src, "knows", dst, md)
    \/ \E outcome \in {"ok", "open_fails", "dump_fails"} : Save(outcome)
    \/ Load

PersistSpec == PersistInit /\ [][PersistNext]_vars

\* the same graph: nodes, node attributes, edges and edge attributes
SameGraph(g, h) ==
    /\ NodeSet(g) = NodeSet(h)
    /\ g.ntype = h.ntype
    /\ g.attrs = h.attrs

\* C11: after any sequence of add_fact and save() calls a fresh GraphService
\* loads exactly the graph as of the last save() that succeeded (nodes, node
\* attributes, edges, edge attributes); facts added since are not visible
\* to it; a missing or malformed file gives the empty graph.
C11_FreshLoadIsLastSuccessfulSave ==
    SameGraph(_load_or_create_graph(graphFile), saved)

\* C12: a write failure inside save() is raised to the caller: save() never
\* returns normally when the graph file was not written with the graph.
C12_SaveFailurePropagates ==
    (call.op = "save" /\ ~call.raised) =>
        graphFile = [state |-> "ok", data |-> node_link_data(graph)]

\* a save() that failed after an earlier one had written the file
C12_Witness ==
    /\ call.op = "save"
    /\ call.raised
    /\ call.before.state = "ok"
    /\ graphFile # [state |-> "ok", data |-> node_link_data(graph)]

(***************************************************************************)
(* The turn: send_message and its generate()                               *)
(***************************************************************************)
MaxChunks == 2

ConversationNode == "conversation_1"

\* texts are sequences of whole sentences; extract_entities treats each
\* sentence on its own, so the entities of a text are those of its
\* sentences, in order, without repetition
ErrorFragment == "[Error: Could not connect to LLM service. Is TabbyAPI running?]"
MetaFragment == "__META__"
Fragments == {"I met Alice. ", "She knows Bob. "}
UserContents == {<<"hello there">>, <<"Tell me about Alice">>}

SentenceEntities(sentence) ==
    CASE sentence = "hello there" -> <<>>
      [] sentence = "Tell me about Alice" -> <<"Alice">>
      [] sentence = "I met Alice. " -> <<"Alice">>
      [] sentence = "She knows Bob. " -> <<"Bob">>
      [] sentence = ErrorFragment -> <<"LLM", "TabbyAPI">>

RECURSIVE AppendNew(_, _)
AppendNew(entities, new) ==
    IF new = <<>> THEN entities
    ELSE AppendNew(IF \E i \in DOMAIN entities : entities[i] = Head(new)
                   THEN entities ELSE Append(entities, Head(new)),
                   Tail(new))

RECURSIVE extract_entities(_)
extract_entities(text) ==
    IF text = <<>> THEN <<>>
    ELSE AppendNew(extract_entities(SubSeq(text, 1, Len(text) - 1)),
                   SentenceEntities(text[Len(text)]))

\* the for-loop of send_message over the entities of the user's message
RECURSIVE RelatedFor(_, _)
RelatedFor(g, entities) ==
    IF entities = <<>> THEN <<>>
    ELSE get_related(g, Head(entities), 1) \o RelatedFor(g, Tail(entities))

\* a memory hit: the stored content, here its name and its length
Hit1 == [content |-> "past one", len |-> 40]
Hit2 == [content |-> "past two", len |-> 300]
MemoryHits == {<<>>, <<Hit1>>, <<Hit2, Hit1>>}

Min(a, b) == IF a <= b THEN a ELSE b
FirstN(sq, n) == SubSeq(sq, 1, Min(n, Len(sq)))

\* every related fact is listed
build_ltm_context_all_facts(similar, facts) ==
    (IF similar = <<>> THEN <<>>
     ELSE <<[line |-> "Relevant past context:"]>> \o
          [i \in DOMAIN FirstN(similar, 3) |->
             [line |-> "msg", content |-> similar[i].content,
              len |-> Min(similar[i].len, 200)]])
    \o
    (IF facts = <<>> THEN <<>>
     ELSE <<[line |-> "Known facts:"]>> \o
          [i \in DOMAIN facts |-> [line |-> "fact", fact |-> facts[i]]])

\* the lines that build_ltm_context joins; the empty list is the empty string
build_ltm_context(similar, facts) ==
    (IF similar = <<>> THEN <<>>
     ELSE <<[line |-> "Relevant past context:"]>> \o
          [i \in DOMAIN FirstN(similar, 3) |->
             [line |-> "msg", content |-> similar[i].content,
              len |-> Min(similar[i].len, 200)]])
    \o
    (IF facts = <<>> THEN <<>>
     ELSE <<[line |-> "Known facts:"]>> \o
          [i \in DOMAIN FirstN(facts, 5) |-> [line |-> "fact", fact |-> facts[i]]])

\* the enumerations of a finite set: the orders a query can rank it in
Orders(S) ==
    {f \in [1..Cardinality(S) -> S] :
        \A i \in DOMAIN f, j \in DOMAIN f : i # j => f[i] # f[j]}

(***************************************************************************)
(* DocumentService: documents and collections are rows of two tables, the  *)
(* chunks of a document are records of the user's documents namespace.     *)
(* A collection_id of 0 is NULL (no collection).                           *)
(***************************************************************************)
TopK == 3

\* f"doc_{document.id}_chunk_{i}" for i in range(n)
ChunkId(document_id, i) == <<"doc", document_id, "chunk", i>>
ChunkIds(document_id, n) == {ChunkId(document_id, i) : i \in 0..(n - 1)}

\* an integer primary key on SQLite: the largest id of the table plus one
NextId(rows) ==
    IF rows = {} THEN 1
    ELSE 1 + CHOOSE m \in {r.id : r \in rows} : \A r \in rows : r.id <= m

\* lines 281-290: ids and metadata; "collection_id or -1"; owner is the user
\* the record was stored for (not a field of the record)
Chunks(user_id, document_id, n, collection_id) ==
    {[id |-> ChunkId(document_id, i), document_id |-> document_id,
      chunk_index |-> i,
      collection_id |-> IF collection_id = 0 THEN -1 ELSE collection_id,
      owner |-> user_id] : i \in 0..(n - 1)}

\* collection.add ignores a record whose id is already stored
chroma_add(ch, name, records) ==
    [ch EXCEPT ![name] = @ \cup {r \in records : \A x \in ch[name] : x.id # r.id}]

chroma_delete(ch, name, ids) ==
    [ch EXCEPT ![name] = {r \in @ : r.id \notin ids}]

get_collection(cs, collection_id, user_id) ==
    {c \in cs : c.id = collection_id /\ c.user_id = user_id}

get_document(ds, document_id, user_id) ==
    {d \in ds : d.id = document_id /\ d.user_id = user_id}

\* n is the number of chunks of the extracted text, 0 when no text could be
\* extracted; engine is what the vector engine does in this call
upload_document(cs, ds, ch, user_id, collection_id, n, engine) ==
    IF collection_id # 0 /\ get_collection(cs, collection_id, user_id) = {}
    THEN [raised |-> "ValueError", document_id |-> 0, documents |-> ds, chroma |-> ch]
    ELSE LET id == NextId(ds)
             status == IF n = 0 \/ engine = "add_raises" THEN "failed" ELSE "ready"
         IN  [raised |-> None,
              document_id |-> id,
              documents |-> ds \cup {[id |-> id, user_id |-> user_id,
                                      collection_id |-> collection_id,
                                      chunk_count |-> n, status |-> status]},
              chroma |-> IF n > 0 /\ engine = "ok"
                         THEN chroma_add(ch, _get_collection_name(user_id),
                                         Chunks(user_id, id, n, collection_id))
                         ELSE ch]

\* lines 323-343: requested is the list of delete requests sent to the engine
delete_document(ds, ch, user_id, document_id, engine) ==
    LET found == get_document(ds, document_id, user_id)
        document == CHOOSE d \in found : TRUE
        name == _get_collection_name(user_id)
        ids == ChunkIds(document_id, document.chunk_count)
    IN  IF found = {}
        THEN [found |-> FALSE, requested |-> <<>>, documents |-> ds, chroma |-> ch]
        ELSE [found |-> TRUE,
              requested |-> IF engine # "unavailable" /\ document.chunk_count > 0
                            THEN <<ids>> ELSE <<>>,
              documents |-> ds \ found,
              chroma |-> IF engine = "ok" /\ document.chunk_count > 0
                         THEN chroma_delete(ch, name, ids) ELSE ch]

\* lines 347-402: ranking is the user's namespace in order of distance to the
\* query; the where filter is applied only for a non-empty collection_ids
search_documents(collection_ids, top_k, ranking, engine) ==
    IF engine # "ok" THEN <<>>
    ELSE FirstN(SelectSeq(ranking,
                    LAMBDA r : collection_ids = {} \/ r.collection_id \in collection_ids),
                top_k)

ScopeIds(scope, type) ==
    {scope[i].id :
        i \in {j \in DOMAIN scope : scope[j].type = type}}

\* lines 404-457: the lines of the RAG block; the empty list is the empty string
\* the query asks for top_k results only
rag_query_top_k(scope, top_k) ==
    [n_results |-> top_k, where |-> ScopeIds(scope, "collection")]

\* lines 434-439: the one query build_rag_context has search_documents send
rag_query(scope, top_k) ==
    [n_results |-> top_k * 2, where |-> ScopeIds(scope, "collection")]

build_rag_context(scope, top_k, ranking, engine) ==
    LET query == rag_query(scope, top_k)
        document_ids == ScopeIds(scope, "document")
        found == search_documents(query.where, query.n_results, ranking, engine)
        filtered == IF document_ids = {} THEN found
                    ELSE SelectSeq(found, LAMBDA r : r.document_id \in document_ids)
        results == FirstN(filtered, top_k)
    IN  IF results = <<>> THEN <<>>
        ELSE <<[line |-> "Relevant document context:"]>> \o
             [i \in DOMAIN results |-> [line |-> "cite", chunk |-> results[i]]]

\* the rows of the collection's documents go with the collection's
delete_collection_rows_only(cs, ds, ch, user_id, collection_id, engine) ==
    LET found == get_collection(cs, collection_id, user_id)
        docs == {d \in ds : d.collection_id = collection_id}
    IN  IF found = {}
        THEN [found |-> FALSE, collections |-> cs, documents |-> ds, chroma |-> ch]
        ELSE [found |-> TRUE, collections |-> cs \ found, documents |-> ds \ docs,
              chroma |-> ch]

\* lines 206-228: the chunks of every document of the collection are deleted
\* by their ids, then the collection; the relationship cascades the delete
\* to the rows of its documents (models/collection.py lines 21-23)
delete_collection(cs, ds, ch, user_id, collection_id, engine) ==
    LET found == get_collection(cs, collection_id, user_id)
        docs == {d \in ds : d.collection_id = collection_id}
        ids == UNION {ChunkIds(d.id, d.chunk_count) : d \in docs}
    IN  IF found = {}
        THEN [found |-> FALSE, collections |-> cs, documents |-> ds, chroma |-> ch]
        ELSE [found |-> TRUE, collections |-> cs \ found, documents |-> ds \ docs,
              chroma |-> IF engine = "ok"
                         THEN chroma_delete(ch, _get_collection_name(user_id), ids)
                         ELSE ch]

\* a graph file written by an earlier turn
EarlierGraph ==
    add_fact(add_fact(EmptyGraph, "Alice", "mentioned_in", ConversationNode, EmptyDict),
             "Bob", "knows", "Alice", EmptyDict)

\* the tables and the engine after two users created a collection each and
\* uploaded: user 1 a document of two chunks into its collection and one of
\* two chunks into none, user 2 a document of one chunk into its collection
EarlierCollections == {[id |-> 1, user_id |-> 1], [id |-> 2, user_id |-> 2]}

EarlierVault ==
    LET u1 == upload_document(EarlierCollections, {}, EmptyChroma, 1, 1, 2, "ok")
        u2 == upload_document(EarlierCollections, u1.documents, u1.chroma, 1, 0, 2, "ok")
    IN  upload_document(EarlierCollections, u2.documents, u2.chroma, 2, 2, 1, "ok")

Entry(type, id) == [type |-> type, id |-> id]

Event(op, arg, result) == [op |-> op, arg |-> arg, result |-> result]

Init ==
    /\ GraphIdle
    /\ graphFile \in {NoFile, save(NoFile, EarlierGraph, "ok")}
    /\ pc = "start"
    /\ llm \in {"LLMService", "accepts_temperature"}
    /\ content \in UserContents
    /\ document_scope \in {<<>>, <<Entry("collection", 1)>>}
    /\ messages = <<>>
    /\ vectors = {}
    /\ memory_service = None
    /\ graph_service = None
    /\ similar_messages = <<>>
    /\ related_facts = <<>>
    /\ rag_context = <<>>
    /\ lookups = NoLookups
    /\ llm_messages = <<>>
    /\ full_response = <<>>
    /\ sent = <<>>
    /\ pending = <<>>
    /\ log = <<>>
    /\ escaped = None
    /\ saved = EmptyGraph
    /\ files = NoFiles
    /\ chroma = EarlierVault.chroma
    /\ collections = EarlierCollections
    /\ documents = EarlierVault.documents
    /\ nOps = 0
    /\ turns = NoTurns

request == <<llm, content, document_scope>>
retrieved == <<memory_service, graph_service, similar_messages, related_facts,
               rag_context, lookups>>
stream == <<full_response, sent>>

\* lines 256-259: the conversation must exist and belong to the user
GetConversation(found) ==
    /\ pc = "start"
    /\ pc' = IF found THEN "store_user" ELSE "failed"
    /\ escaped' = IF found THEN None ELSE "http_404"
    /\ UNCHANGED <<storeVars, graphVars, graphFile, request, messages, vectors, retrieved,
                   llm_messages, stream, pending, log>>

\* the message is added to the session and never committed
AddUserMessageUncommitted(outcome) ==
    /\ pc = "store_user"
    /\ log' = Append(log, Event("add_message", "user", outcome))
    /\ messages' = messages
    /\ pc' = IF outcome = "ok" THEN "memory" ELSE "failed"
    /\ escaped' = IF outcome = "ok" THEN None ELSE "http_500"
    /\ UNCHANGED <<storeVars, graphVars, graphFile, request, vectors, retrieved,
                   llm_messages, stream, pending>>

\* line 262: chat.add_message commits the user's message
AddUserMessage(outcome) ==
    /\ pc = "store_user"
    /\ log' = Append(log, Event("add_message", "user", outcome))
    /\ IF outcome = "ok"
       THEN /\ messages' = Append(messages, [role |-> "user", content |-> content])
            /\ pc' = "memory"
            /\ escaped' = None
       ELSE /\ messages' = messages
            /\ pc' = "failed"
            /\ escaped' = "http_500"
    /\ UNCHANGED <<storeVars, graphVars, graphFile, request, vectors, retrieved,
                   llm_messages, stream, pending>>

\* a failed search is issued a second time
MemoryLookupRetrying(outcome, hits) ==
    /\ pc = "memory"
    /\ memory_service' = CASE outcome = "create_raises" -> None
                           [] outcome = "unavailable" -> "unavailable"
                           [] OTHER -> "available"
    /\ similar_messages' = IF outcome = "hits" THEN hits ELSE <<>>
    /\ lookups' = [lookups EXCEPT !.memory = outcome, !.hits = hits]
    /\ log' = CASE outcome = "hits" ->
                     Append(log, Event("memory_query", content, outcome))
                [] outcome = "search_fails" ->
                     log \o <<Event("memory_query", content, outcome),
                              Event("memory_query", content, outcome)>>
                [] OTHER -> log
    /\ pc' = "graph_lookup"
    /\ UNCHANGED <<storeVars, graphVars, graphFile, request, messages, vectors, graph_service,
                   related_facts, rag_context, llm_messages, stream, pending,
                   escaped>>

\* lines 270-277: memory search; every failure leaves similar_messages empty
MemoryLookup(outcome, hits) ==
    /\ pc = "memory"
    /\ memory_service' = CASE outcome = "create_raises" -> None
                           [] outcome = "unavailable" -> "unavailable"
                           [] OTHER -> "available"
    /\ similar_messages' = IF outcome = "hits" THEN hits ELSE <<>>
    /\ lookups' = [lookups EXCEPT !.memory = outcome, !.hits = hits]
    /\ log' = IF outcome \in {"search_fails", "hits"}
              THEN Append(log, Event("memory_query", content, outcome))
              ELSE log
    /\ pc' = "graph_lookup"
    /\ UNCHANGED <<storeVars, graphVars, graphFile, request, messages, vectors, graph_service,
                   related_facts, rag_context, llm_messages, stream, pending,
                   escaped>>

\* lines 279-288: load the graph, extract entities, one-hop lookup per entity
GraphLookup(outcome) ==
    /\ pc = "graph_lookup"
    /\ IF outcome = "create_raises"
       THEN /\ graph_service' = None
            /\ graph' = graph
            /\ log' = log
       ELSE /\ graph_service' = "created"
            /\ graph' = _load_or_create_graph(graphFile)
            /\ log' = Append(log, Event("graph_load", graphFile.state, outcome))
    /\ related_facts' = IF outcome = "ok"
                        THEN RelatedFor(graph', extract_entities(content))
                        ELSE <<>>
    /\ lookups' = [lookups EXCEPT !.graph = outcome]
    /\ pc' = "rag"
    /\ UNCHANGED <<storeVars, call, related, nFacts, graphFile, request, messages, vectors,
                   memory_service, similar_messages, rag_context, llm_messages,
                   stream, pending, escaped>>

\* lines 293-305: RAG retrieval, only for a conversation with a scope; the
\* handler swallows what _create_document_service, json.loads or
\* build_rag_context raise
RagLookup(outcome, ranking) ==
    /\ pc = "rag"
    /\ document_scope # <<>>
    /\ rag_context' = IF outcome = "raises" THEN <<>>
                       ELSE build_rag_context(document_scope, TopK, ranking, outcome)
    /\ lookups' = [lookups EXCEPT
                      !.rag = IF outcome = "raises" THEN "raises"
                              ELSE IF rag_context' = <<>> THEN "empty" ELSE "context",
                      !.rag_text = rag_context']
    /\ log' = Append(log, Event("rag_query", content, lookups'.rag))
    /\ pc' = "compose"
    /\ UNCHANGED <<storeVars, graphVars, graphFile, request, messages, vectors, memory_service,
                   graph_service, similar_messages, related_facts, llm_messages,
                   stream, pending, escaped>>

SkipRag ==
    /\ pc = "rag"
    /\ document_scope = <<>>
    /\ lookups' = [lookups EXCEPT !.rag = "no_scope"]
    /\ pc' = "compose"
    /\ UNCHANGED <<storeVars, graphVars, graphFile, request, messages, vectors, memory_service,
                   graph_service, similar_messages, related_facts, rag_context,
                   llm_messages, stream, pending, log, escaped>>

\* lines 307-333: the persona's prompt when one is assigned and was loaded,
\* else the default prompt with the name of the active model
base_prompt(persona, model) ==
    IF persona = "loaded" THEN [part |-> "persona.system_prompt"]
    ELSE [part |-> "default",
          model_name |-> IF model = None THEN "an AI assistant" ELSE model]

\* lines 335-339
system_content(base, ltm_context, rag) ==
    <<base>>
    \o (IF ltm_context # <<>> THEN <<[part |-> "ltm", lines |-> ltm_context]>> ELSE <<>>)
    \o (IF rag # <<>> THEN <<[part |-> "rag", lines |-> rag]>> ELSE <<>>)

\* lines 290, 307-347: persona, active model, system message, history
Compose(persona, model) ==
    /\ pc = "compose"
    /\ lookups' = [lookups EXCEPT !.persona = persona, !.model = model]
    /\ llm_messages' =
          <<[role |-> "system",
             content |-> system_content(
                 base_prompt(persona, model),
                 build_ltm_context(similar_messages, related_facts), rag_context)]>>
          \o messages
    /\ pc' = "gen_call"
    /\ UNCHANGED <<storeVars, graphVars, graphFile, request, messages, vectors,
                   memory_service, graph_service, similar_messages, related_facts,
                   rag_context, stream, pending, log, escaped>>

\* lines 356-358: generate() calls stream_chat(llm_messages, model=..., temperature=...);
\* LLMService.stream_chat takes (messages, model) only
GenCall ==
    /\ pc = "gen_call"
    /\ IF llm = "accepts_temperature"
       THEN /\ pc' = "gen"
            /\ escaped' = None
            /\ log' = Append(log, Event("stream_chat", "temperature", "ok"))
       ELSE /\ pc' = "stream_failed"
            /\ escaped' = "stream_exception"
            /\ log' = Append(log, Event("stream_chat", "temperature", "TypeError"))
    /\ UNCHANGED <<storeVars, graphVars, graphFile, request, messages, vectors, retrieved,
                   llm_messages, stream, pending>>

\* the fragment is forwarded and not added to the buffer
GenChunkUnbuffered(fragment) ==
    /\ pc = "gen"
    /\ Len(sent) < MaxChunks
    /\ sent' = Append(sent, fragment)
    /\ UNCHANGED <<storeVars, graphVars, graphFile, request, messages, vectors,
                   retrieved, llm_messages, full_response, pending, log, escaped, pc>>

\* lines 359-360 with llm_service.py line 51: one content fragment
GenChunk(fragment) ==
    /\ pc = "gen"
    /\ Len(full_response) < MaxChunks
    /\ full_response' = Append(full_response, fragment)
    /\ sent' = Append(sent, fragment)
    /\ UNCHANGED <<storeVars, graphVars, graphFile, request, messages, vectors, retrieved,
                   llm_messages, pending, log, escaped, pc>>

\* llm_service.py lines 54-59: an upstream failure becomes one more fragment
GenError ==
    /\ pc = "gen"
    /\ full_response' = Append(full_response, ErrorFragment)
    /\ sent' = Append(sent, ErrorFragment)
    /\ log' = Append(log, Event("stream_end", full_response', "error"))
    /\ pc' = "meta"
    /\ UNCHANGED <<storeVars, graphVars, graphFile, request, messages, vectors, retrieved,
                   llm_messages, pending, escaped>>

\* llm_service.py lines 43-44: [DONE], or the upstream lines run out
GenEnd ==
    /\ pc = "gen"
    /\ log' = Append(log, Event("stream_end", full_response, "done"))
    /\ pc' = "meta"
    /\ UNCHANGED <<storeVars, graphVars, graphFile, request, messages, vectors, retrieved,
                   llm_messages, stream, pending, escaped>>

\* lines 362-370
YieldMeta ==
    /\ pc = "meta"
    /\ sent' = Append(sent, MetaFragment)
    /\ pc' = "store_asst"
    /\ UNCHANGED <<storeVars, graphVars, graphFile, request, messages, vectors, retrieved,
                   llm_messages, full_response, pending, log, escaped>>

\* what was buffered is stored when the generator is closed
CloseStoringPartial ==
    /\ pc \in {"gen", "meta", "store_asst"}
    /\ sent # <<>>
    /\ messages' = Append(messages, [role |-> "assistant", content |-> full_response])
    /\ pc' = "closed"
    /\ UNCHANGED <<storeVars, graphVars, graphFile, request, vectors, retrieved,
                   llm_messages, stream, pending, log, escaped>>

\* the caller stops iterating generate() after a fragment it received: the
\* generator stays suspended at its yield (lines 360, 370) and is closed
\* there; no statement after that yield runs, and generate() has no finally
Close ==
    /\ pc \in {"gen", "meta", "store_asst"}
    /\ sent # <<>>
    /\ pc' = "closed"
    /\ UNCHANGED <<storeVars, graphVars, graphFile, request, messages, vectors,
                   retrieved, llm_messages, stream, pending, log, escaped>>

\* the buffer is stored while fragments are still arriving
StoreAssistantMidStream(outcome) ==
    /\ pc \in {"gen", "store_asst"}
    /\ log' = Append(log, Event("add_message", "assistant", outcome))
    /\ IF outcome = "ok"
       THEN /\ messages' = Append(messages,
                                  [role |-> "assistant", content |-> full_response])
            /\ pc' = "embed_user"
            /\ escaped' = None
       ELSE /\ messages' = messages
            /\ pc' = "stream_failed"
            /\ escaped' = "stream_exception"
    /\ UNCHANGED <<storeVars, graphVars, graphFile, request, vectors, retrieved, llm_messages,
                   stream, pending>>

\* line 373: the assistant message is stored outside any try block
StoreAssistant(outcome) ==
    /\ pc = "store_asst"
    /\ log' = Append(log, Event("add_message", "assistant", outcome))
    /\ IF outcome = "ok"
       THEN /\ messages' = Append(messages,
                                  [role |-> "assistant", content |-> full_response])
            /\ pc' = "embed_user"
            /\ escaped' = None
       ELSE /\ messages' = messages
            /\ pc' = "stream_failed"
            /\ escaped' = "stream_exception"
    /\ UNCHANGED <<storeVars, graphVars, graphFile, request, vectors, retrieved, llm_messages,
                   stream, pending>>

\* embed_message (memory_service.py lines 90-103) as seen from its caller
EmbedOutcomes == {"ok", "engine_fails", "raises", "not_performed"}

\* an unavailable service returns None without a call on the engine
Embeds(outcome) ==
    IF memory_service = "available" THEN outcome # "not_performed"
    ELSE outcome = "not_performed"

MessageId(role) == CHOOSE i \in DOMAIN messages : messages[i].role = role

\* collection.add leaves a record whose id is already stored as it is
embed_message_on_failure(vs, message_id, text, outcome) ==
    IF \E v \in vs : v.id = message_id THEN vs
    ELSE vs \cup {[id |-> message_id, content |-> text]}

embed_message(vs, message_id, text, outcome) ==
    IF outcome = "ok" /\ ~\E v \in vs : v.id = message_id
    THEN vs \cup {[id |-> message_id, content |-> text]} ELSE vs

(***************************************************************************)
(* MemoryService driven by a caller: construction, embed_message and       *)
(* search_similar in any order, with the vector engine failing at will     *)
(***************************************************************************)
MessageIds == {1, 2, 3}
MessageTexts == {"first", "second"}

\* memory_service.py lines 41-66, as the caller sees the constructor
MemoryServiceInit(engine) ==
    [available |-> engine = "reachable", raised |-> FALSE]

\* lines 119-145: documents of the n_results closest records, closest first
search_similar(available, vs, ranking, limit, engine) ==
    IF ~available \/ engine # "ok" THEN <<>>
    ELSE [i \in DOMAIN FirstN(ranking, limit) |->
            [content |-> ranking[i].content]]

MemoryIdle ==
    /\ GraphIdle
    /\ graphFile = NoFile
    /\ StoreIdle
    /\ pc = "idle" /\ llm = None /\ content = <<>> /\ document_scope = <<>>
    /\ messages = <<>> /\ similar_messages = <<>> /\ related_facts = <<>>
    /\ rag_context = <<>> /\ lookups = NoLookups /\ llm_messages = <<>>
    /\ full_response = <<>> /\ sent = <<>> /\ pending = <<>> /\ log = <<>>
    /\ escaped = None /\ graph_service = None

MemoryInit ==
    /\ MemoryIdle
    /\ memory_service = None
    /\ vectors \in {{}, {[id |-> 1, content |-> "first"]}}

memoryRest == <<graph, related, nFacts, graphFile, storeVars, pc, llm, content,
                document_scope, messages, graph_service, similar_messages,
                related_facts, rag_context, lookups, llm_messages, full_response,
                sent, pending, log, escaped>>

NewMemoryService(engine) ==
    /\ memory_service' = IF MemoryServiceInit(engine).available
                          THEN "available" ELSE "unavailable"
    /\ call' = [op |-> "init", engine |-> engine,
                raised |-> MemoryServiceInit(engine).raised]
    /\ UNCHANGED <<vectors, memoryRest>>

EmbedMessage(message_id, text, outcome) ==
    /\ memory_service # None
    /\ Embeds(outcome)
    /\ outcome # "raises"
    /\ vectors' = embed_message(vectors, message_id, text, outcome)
    /\ call' = [op |-> "embed_message", outcome |-> outcome,
                result |-> IF outcome = "ok" THEN "True" ELSE None,
                before |-> vectors, service |-> memory_service]
    /\ UNCHANGED <<memory_service, memoryRest>>

SearchSimilar(ranking, engine) ==
    /\ memory_service # None
    /\ call' = [op |-> "search_similar", engine |-> engine,
                service |-> memory_service,
                result |-> search_similar(memory_service = "available", vectors,
                                          ranking, 3, engine)]
    /\ UNCHANGED <<vectors, memory_service, memoryRest>>

MemoryNext ==
    \/ \E engine \in {"reachable", "unreachable"} : NewMemoryService(engine)
    \/ \E message_id \in MessageIds, text \in MessageTexts, outcome \in EmbedOutcomes :
          EmbedMessage(message_id, text, outcome)
    \/ \E ranking \in Orders(vectors), engine \in {"ok", "fails"} :
          SearchSimilar(ranking, engine)

MemorySpec == MemoryInit /\ [][MemoryNext]_vars

\* C15: MemoryService never raises on connectivity failure: with the engine
\* unreachable the constructor completes with available = false; from then
\* on, or whenever a single engine call fails, embed_message returns None
\* without writing and search_similar returns the empty list.
C15_MemoryServiceDegrades ==
    /\ call.op = "init" =>
          /\ ~call.raised
          /\ call.engine = "unreachable" => memory_service = "unavailable"
    /\ (call.op = "embed_message"
          /\ (call.service = "unavailable" \/ call.outcome = "engine_fails")) =>
          /\ call.result = None
          /\ vectors = call.before
    /\ (call.op = "search_similar"
          /\ (call.service = "unavailable" \/ call.engine = "fails")) =>
          call.result = <<>>

\* a failed embedding by a service that is available and has stored a record
C15_Witness ==
    /\ call.op = "embed_message"
    /\ call.service = "available"
    /\ call.outcome = "engine_fails"
    /\ vectors # {}
    /\ call.result = None

\* line 377 when no MemoryService was created
SkipEmbedding ==
    /\ pc = "embed_user"
    /\ memory_service = None
    /\ pc' = "graph_update"
    /\ UNCHANGED <<storeVars, graphVars, graphFile, request, messages, vectors, retrieved,
                   llm_messages, stream, pending, log, escaped>>

\* one try block around both embeddings: a raise skips the second
EmbedUserAbortsOnFailure(outcome) ==
    /\ pc = "embed_user"
    /\ memory_service # None
    /\ Embeds(outcome)
    /\ vectors' = embed_message(vectors, MessageId("user"), content, outcome)
    /\ log' = Append(log, Event("embed_user", content, outcome))
    /\ pc' = IF outcome = "raises" THEN "graph_update" ELSE "embed_asst"
    /\ UNCHANGED <<storeVars, graphVars, graphFile, request, messages, retrieved, llm_messages,
                   stream, pending, escaped>>

\* lines 378-388
EmbedUser(outcome) ==
    /\ pc = "embed_user"
    /\ memory_service # None
    /\ Embeds(outcome)
    /\ vectors' = embed_message(vectors, MessageId("user"), content, outcome)
    /\ log' = Append(log, Event("embed_user", content, outcome))
    /\ pc' = "embed_asst"
    /\ UNCHANGED <<storeVars, graphVars, graphFile, request, messages, retrieved, llm_messages,
                   stream, pending, escaped>>

\* lines 391-401
EmbedAssistant(outcome) ==
    /\ pc = "embed_asst"
    /\ Embeds(outcome)
    /\ vectors' = embed_message(vectors, MessageId("assistant"), full_response, outcome)
    /\ log' = Append(log, Event("embed_assistant", full_response, outcome))
    /\ pc' = "graph_update"
    /\ UNCHANGED <<storeVars, graphVars, graphFile, request, messages, retrieved, llm_messages,
                   stream, pending, escaped>>

\* line 404 when no GraphService was created
SkipGraphUpdate ==
    /\ pc = "graph_update"
    /\ graph_service = None
    /\ pc' = "done"
    /\ UNCHANGED <<storeVars, graphVars, graphFile, request, messages, vectors, retrieved,
                   llm_messages, stream, pending, log, escaped>>

\* line 406: the entities of the full response
ExtractResponse(outcome) ==
    /\ pc = "graph_update"
    /\ graph_service # None
    /\ log' = Append(log, Event("extract_entities", full_response, outcome))
    /\ pending' = IF outcome = "ok" THEN extract_entities(full_response) ELSE <<>>
    /\ pc' = IF outcome = "ok" THEN "add_facts" ELSE "done"
    /\ UNCHANGED <<storeVars, graphVars, graphFile, request, messages, vectors, retrieved,
                   llm_messages, stream, escaped>>

\* lines 407-411: one mentioned_in fact per entity
AddFactStep(outcome) ==
    /\ pc = "add_facts"
    /\ pending # <<>>
    /\ log' = Append(log, Event("add_fact", Head(pending), outcome))
    /\ IF outcome = "ok"
       THEN /\ graph' = add_fact(graph, Head(pending), "mentioned_in",
                                 ConversationNode, EmptyDict)
            /\ pending' = Tail(pending)
            /\ pc' = "add_facts"
       ELSE /\ graph' = graph
            /\ pending' = pending
            /\ pc' = "done"
    /\ UNCHANGED <<storeVars, call, related, nFacts, graphFile, request, messages, vectors,
                   retrieved, llm_messages, stream, escaped>>

\* lines 412-414: save() raises on a write failure, generate() swallows it
SaveGraph(outcome) ==
    /\ pc = "add_facts"
    /\ pending = <<>>
    /\ graphFile' = save(graphFile, graph, outcome)
    /\ log' = Append(log, Event("save", "graph", outcome))
    /\ pc' = "done"
    /\ UNCHANGED <<storeVars, graphVars, request, messages, vectors, retrieved, llm_messages,
                   stream, pending, escaped>>

Next ==
    \/ \E found \in BOOLEAN : GetConversation(found)
    \/ \E outcome \in {"ok", "raises"} : AddUserMessage(outcome)
    \/ \E outcome \in {"create_raises", "unavailable", "search_fails"} :
          MemoryLookup(outcome, <<>>)
    \/ \E hits \in MemoryHits : MemoryLookup("hits", hits)
    \/ \E outcome \in {"create_raises", "ok", "query_raises"} : GraphLookup(outcome)
    \/ /\ pc = "rag"
       /\ \E outcome \in {"raises", "unavailable", "ok"},
             ranking \in Orders(chroma[_get_collection_name(1)]) :
             RagLookup(outcome, ranking)
    \/ SkipRag
    \/ Compose("not_assigned", "model")
    \/ GenCall
    \/ \E fragment \in Fragments : GenChunk(fragment)
    \/ GenError
    \/ GenEnd
    \/ YieldMeta
    \/ Close
    \/ \E outcome \in {"ok", "raises"} : StoreAssistant(outcome)
    \/ SkipEmbedding
    \/ \E outcome \in EmbedOutcomes : EmbedUser(outcome)
    \/ \E outcome \in EmbedOutcomes : EmbedAssistant(outcome)
    \/ SkipGraphUpdate
    \/ \E outcome \in {"ok", "raises"} : ExtractResponse(outcome)
    \/ \E outcome \in {"ok", "raises"} : AddFactStep(outcome)
    \/ \E outcome \in {"ok", "open_fails", "dump_fails"} : SaveGraph(outcome)

Spec == Init /\ [][Next]_vars

(***************************************************************************)
(* Properties of the turn                                                  *)
(***************************************************************************)
HasEvent(op) == \E i \in DOMAIN log : log[i].op = op
HasResult(op, result) == \E i \in DOMAIN log : log[i].op = op /\ log[i].result = result
Count(op) == Cardinality({i \in DOMAIN log : log[i].op = op})

IsPersisting(e) ==
    \/ e.op \in {"embed_user", "embed_assistant", "add_fact", "save"}
    \/ e.op = "add_message" /\ e.arg = "assistant"

Truncated == HasResult("stream_end", "error")
Finished == pc \in {"done", "stream_failed", "failed"}
UserStored == \E i \in DOMAIN messages : messages[i] = [role |-> "user", content |-> content]
MetaSent == \E i \in DOMAIN sent : sent[i] = MetaFragment

\* C1: no persisting action (storing the assistant message, embedding the
\* user or the assistant message, add_fact, graph save) occurs before the
\* generation stream is exhausted, and the buffer it persists is the buffer
\* as it was when the stream ended.
C1_PersistingOnlyAfterStreamEnd ==
    \A i \in DOMAIN log :
        IsPersisting(log[i]) =>
            \E j \in 1..(i - 1) :
                log[j].op = "stream_end" /\ log[j].arg = full_response

\* a turn that streamed two fragments and then stored, embedded both
\* messages, added a fact and saved
C1_Witness ==
    /\ pc = "done"
    /\ Len(full_response) = 2
    /\ HasResult("embed_user", "ok")
    /\ HasResult("embed_assistant", "ok")
    /\ HasResult("add_fact", "ok")
    /\ HasResult("save", "ok")

C3_UserMessageCommittedFirst ==
    /\ ~UserStored =>
          /\ lookups = NoLookups
          /\ ~HasEvent("memory_query") /\ ~HasEvent("graph_load")
          /\ ~HasEvent("rag_query") /\ ~HasEvent("stream_chat")
    /\ pc \notin {"start", "store_user", "failed"} => UserStored

\* the user's message outlives a failed lookup and an exception in the stream
C3_Witness ==
    /\ pc = "stream_failed"
    /\ lookups.memory = "search_fails"
    /\ lookups.rag = "raises"
    /\ UserStored

MemoryFailed == lookups.memory \in {"create_raises", "unavailable", "search_fails"}
GraphFailed == lookups.graph \in {"create_raises", "query_raises"}
RagFailed == lookups.rag = "raises"

\* C4: for any subset of the three lookups that fails, the turn still
\* reaches generation and returns an answer with no exception escaping;
\* each failed lookup contributes an empty result and the results of the
\* lookups that succeeded are unchanged.
C4_LookupFailuresNeverAbortTheTurn ==
    (Finished /\ (MemoryFailed \/ GraphFailed \/ RagFailed)) =>
        /\ escaped = None
        /\ MetaSent
        /\ MemoryFailed => similar_messages = <<>>
        /\ GraphFailed => related_facts = <<>>
        /\ RagFailed => rag_context = <<>>
        /\ lookups.memory = "hits" => similar_messages = lookups.hits
        /\ lookups.rag \in {"empty", "context"} => rag_context = lookups.rag_text

C6_PersistingStepsIndependent ==
    pc = "done" =>
        /\ HasEvent("embed_user") => HasEvent("embed_assistant")
        /\ memory_service # None => HasEvent("embed_user")
        /\ graph_service # None => HasEvent("extract_entities")
        /\ (graph_service # None /\ ~HasResult("extract_entities", "raises")
              /\ ~HasResult("add_fact", "raises")) => HasEvent("save")

\* both embeddings failed, one by raising, and the graph was still saved
C6_Witness ==
    /\ pc = "done"
    /\ HasResult("embed_user", "raises")
    /\ HasResult("embed_assistant", "engine_fails")
    /\ HasResult("add_fact", "ok")
    /\ HasResult("save", "ok")

\* C7: no automatic retries: each external operation (memory search, RAG
\* query, generation request, embedding of a given message, graph save) is
\* issued at most once per turn, also after it failed, and add_fact is
\* called once per entity.
C7_AtMostOncePerTurn ==
    /\ \A op \in {"memory_query", "graph_load", "rag_query", "stream_chat",
                  "embed_user", "embed_assistant", "extract_entities", "save"} :
          Count(op) <= 1
    /\ \A i \in DOMAIN log, j \in DOMAIN log :
          (i < j /\ log[i].op = "add_fact" /\ log[j].op = "add_fact")
              => log[i].arg # log[j].arg

\* a finished turn in which a search, an embedding and the save failed
C7_Witness ==
    /\ pc = "done"
    /\ HasResult("memory_query", "search_fails")
    /\ HasResult("rag_query", "raises")
    /\ HasResult("embed_user", "engine_fails")
    /\ HasResult("save", "open_fails")
    /\ Count("memory_query") = 1 /\ Count("rag_query") = 1
    /\ Count("embed_user") = 1 /\ Count("save") = 1

\* the generator has returned or raised: the caller has every fragment
Drained == pc \in {"done", "stream_failed"}

Forwarded == SubSeq(sent, 1, Len(sent) - 1)

\* C16: the fragment sequence of every fully drained turn is zero or more
\* content fragments in the order the backend produced them, then, only on
\* upstream failure, exactly one inline error fragment with no content
\* fragment after it, then exactly one metadata fragment, which is the
\* last fragment of the stream.
C16_FragmentSequenceShape ==
    Drained =>
        /\ sent # <<>>
        /\ sent[Len(sent)] = MetaFragment
        /\ Forwarded = full_response
        /\ \A i \in DOMAIN Forwarded :
              /\ Forwarded[i] # MetaFragment
              /\ Forwarded[i] = ErrorFragment => (i = Len(Forwarded) /\ Truncated)
        /\ Truncated =>
              (Forwarded # <<>> /\ Forwarded[Len(Forwarded)] = ErrorFragment)

\* C17: the assistant message stored for a turn equals the concatenation,
\* in order, of exactly the fragments forwarded to the caller before the
\* metadata fragment: it omits none and never contains the metadata
\* fragment.
C17_StoredAnswerIsWhatWasForwarded ==
    \A i \in DOMAIN messages :
        messages[i].role = "assistant" =>
            /\ sent # <<>>
            /\ sent[Len(sent)] = MetaFragment
            /\ messages[i].content = Forwarded
            /\ \A j \in DOMAIN messages[i].content :
                  messages[i].content[j] # MetaFragment

\* an answer of two content fragments and the error fragment was stored
C17_Witness ==
    /\ pc = "done"
    /\ Truncated
    /\ \E i \in DOMAIN messages :
          messages[i].role = "assistant" /\ Len(messages[i].content) = 3


(***************************************************************************)
(* The turn up to the call of generate(): the lookups and the message list *)
(* for a conversation with earlier messages, any document scope that       *)
(* set_conversation_document_scope stores, a persona that is assigned or   *)
(* not, and an active model or none.                                       *)
(***************************************************************************)
\* routers/chat.py lines 446-466: the scope is stored as sent, any list of
\* entries; user 1 owns collection 1 and documents 1 and 2, user 2 owns
\* collection 2 and document 3, nobody owns collection 9
Scopes ==
    { <<>>,
      <<Entry("collection", 1)>>,
      <<Entry("document", 1)>>,
      <<Entry("document", 2)>>,
      <<Entry("collection", 1), Entry("document", 1)>>,
      <<Entry("document", 1), Entry("document", 2)>>,
      <<Entry("collection", 2)>>,
      <<Entry("document", 3)>>,
      <<Entry("collection", 9)>>,
      <<Entry("collection", -1)>> }

EarlierMessages ==
    <<[role |-> "user", content |-> <<"hello there">>],
      [role |-> "assistant", content |-> <<"I met Alice. ">>]>>

Hit3 == [content |-> "past three", len |-> 200]
RetrievalHits == MemoryHits \cup {<<Hit2, Hit1, Hit3>>}

RECURSIVE Knows(_, _, _)
Knows(g, src, dsts) ==
    IF dsts = <<>> THEN g
    ELSE Knows(add_fact(g, src, "knows", Head(dsts), EmptyDict), src, Tail(dsts))

\* a graph file in which Alice has more than five relations
BigGraph == Knows(EmptyGraph, "Alice", <<"Bob", "Carol", "Dave", "Erin", "Frank", "Grace">>)

PersonaOutcomes == {"not_assigned", "loaded", "not_found", "raises"}
ActiveModels == {None, "model"}

RetrievalInit ==
    /\ GraphIdle
    /\ graphFile \in {NoFile, save(NoFile, EarlierGraph, "ok"), save(NoFile, BigGraph, "ok")}
    /\ pc = "start"
    /\ llm = "accepts_temperature"
    /\ content = <<"Tell me about Alice">>
    /\ document_scope \in Scopes
    /\ messages \in {<<>>, EarlierMessages}
    /\ vectors = {}
    /\ memory_service = None
    /\ graph_service = None
    /\ similar_messages = <<>>
    /\ related_facts = <<>>
    /\ rag_context = <<>>
    /\ lookups = NoLookups
    /\ llm_messages = <<>>
    /\ full_response = <<>>
    /\ sent = <<>>
    /\ pending = <<>>
    /\ log = <<>>
    /\ escaped = None
    /\ saved = EmptyGraph
    /\ files = NoFiles
    /\ chroma = EarlierVault.chroma
    /\ collections = EarlierCollections
    /\ documents = EarlierVault.documents
    /\ nOps = 0
    /\ turns = NoTurns

RetrievalNext ==
    \/ \E found \in BOOLEAN : GetConversation(found)
    \/ \E outcome \in {"ok", "raises"} : AddUserMessage(outcome)
    \/ \E outcome \in {"create_raises", "unavailable", "search_fails"} :
          MemoryLookup(outcome, <<>>)
    \/ \E hits \in RetrievalHits : MemoryLookup("hits", hits)
    \/ \E outcome \in {"create_raises", "ok", "query_raises"} : GraphLookup(outcome)
    \/ /\ pc = "rag"
       /\ \E outcome \in {"raises", "unavailable", "ok"},
             ranking \in Orders(chroma[_get_collection_name(1)]) :
             RagLookup(outcome, ranking)
    \/ SkipRag
    \/ \E persona \in PersonaOutcomes, model \in ActiveModels : Compose(persona, model)

RetrievalSpec == RetrievalInit /\ [][RetrievalNext]_vars

\* an entry of the scope that names no collection or document of the user
UnknownEntry(e) ==
    \/ e.type = "collection" /\ get_collection(collections, e.id, 1) = {}
    \/ e.type = "document" /\ get_document(documents, e.id, 1) = {}

UnknownScope == \E i \in DOMAIN document_scope : UnknownEntry(document_scope[i])

\* C18: a turn whose conversation document scope references an unknown
\* collection or document is reported as a validation failure before any
\* stream starts: such a turn never gets as far as composing the message
\* list and calling generate().
C18_UnknownScopeIsRejected ==
    UnknownScope => pc \notin {"compose", "gen_call"}


SystemParts == llm_messages[1].content
PartsNamed(part) == {i \in DOMAIN SystemParts : SystemParts[i].part = part}
LinesOf(ls, line) == SelectSeq(ls, LAMBDA l : l.line = line)

\* the LTM block: the first three hits cut to 200 characters under their
\* heading, then the first five facts under theirs
IsLtmBlock(ls) ==
    LET msgs == LinesOf(ls, "msg")
        facts == LinesOf(ls, "fact")
    IN  /\ Len(msgs) = Min(3, Len(similar_messages))
        /\ \A i \in DOMAIN msgs :
              /\ msgs[i].content = similar_messages[i].content
              /\ msgs[i].len = Min(similar_messages[i].len, 200)
        /\ Len(facts) = Min(5, Len(related_facts))
        /\ \A i \in DOMAIN facts : facts[i].fact = related_facts[i]
        /\ ls = (IF msgs = <<>> THEN <<>> ELSE <<[line |-> "Relevant past context:"]>> \o msgs)
                 \o (IF facts = <<>> THEN <<>> ELSE <<[line |-> "Known facts:"]>> \o facts)

\* C19: the message list sent to generation is one system message followed
\* by the stored messages of the conversation in chronological order, the
\* last being the current user message; the system message starts with the
\* persona's system prompt if a persona is assigned and was loaded, else
\* with the default prompt naming the active model; the LTM block (at most
\* 3 hits cut to 200 characters, at most 5 facts) follows only when it is
\* non-empty, then the RAG block only when it is non-empty.
C19_MessageListComposition ==
    pc = "gen_call" =>
        /\ llm_messages = <<llm_messages[1]>> \o messages
        /\ llm_messages[1].role = "system"
        /\ llm_messages[Len(llm_messages)] = [role |-> "user", content |-> content]
        /\ SystemParts[1] =
              IF lookups.persona = "loaded" THEN [part |-> "persona.system_prompt"]
              ELSE [part |-> "default",
                    model_name |-> IF lookups.model = None THEN "an AI assistant"
                                   ELSE lookups.model]
        /\ LET ltm == similar_messages # <<>> \/ related_facts # <<>>
               rag == rag_context # <<>>
           IN  /\ Len(SystemParts) = 1 + (IF ltm THEN 1 ELSE 0) + (IF rag THEN 1 ELSE 0)
               /\ ltm => /\ SystemParts[2].part = "ltm"
                          /\ IsLtmBlock(SystemParts[2].lines)
               /\ rag => /\ SystemParts[Len(SystemParts)].part = "rag"
                          /\ SystemParts[Len(SystemParts)].lines = rag_context

\* a persona's prompt, three hits of which one was cut, six facts of which
\* five are listed, a RAG block, and an earlier exchange in the history
C19_Witness ==
    /\ pc = "gen_call"
    /\ lookups.persona = "loaded"
    /\ Len(similar_messages) = 3
    /\ \E i \in DOMAIN similar_messages : similar_messages[i].len > 200
    /\ Len(related_facts) > 5
    /\ rag_context # <<>>
    /\ Len(llm_messages) = 4
    /\ Len(SystemParts) = 3

\* the chunks cited in the RAG block
Cited == {rag_context[i].chunk : i \in {j \in DOMAIN rag_context : rag_context[j].line = "cite"}}

\* the chunk's document is a scoped document, or the collection its document
\* is in is a scoped collection
InScope(r) ==
    \/ r.document_id \in ScopeIds(document_scope, "document")
    \/ \E d \in documents :
          /\ d.id = r.document_id
          /\ d.collection_id # 0
          /\ d.collection_id \in ScopeIds(document_scope, "collection")

\* C20: RAG retrieval runs only when the conversation has a document scope;
\* every chunk cited in the RAG block lies in that scope; at most top_k = 3
\* chunks are cited; when no chunk qualifies the context is the empty
\* string and the prompt carries no RAG block.
C20_RagCitesOnlyTheScope ==
    /\ document_scope = <<>> => ~HasEvent("rag_query") /\ rag_context = <<>>
    /\ \A r \in Cited : InScope(r)
    /\ Cardinality(Cited) <= 3
    /\ (pc = "gen_call" /\ rag_context = <<>>) => PartsNamed("rag") = {}
    /\ (\A r \in chroma[_get_collection_name(1)] : ~InScope(r)) => rag_context = <<>>

\* the same for a scope of entries with positive ids
C20_RagCitesOnlyTheScopeOfPositiveIds ==
    (\A i \in DOMAIN document_scope : document_scope[i].id > 0) => C20_RagCitesOnlyTheScope


(***************************************************************************)
(* Two users on one installation: each operation is performed for the user *)
(* the router authenticated (routers/documents.py and routers/chat.py pass *)
(* user.id), on the tables shared by all users, the graph files and the    *)
(* namespaces of the vector engine.                                        *)
(***************************************************************************)
MaxOps == 2
MaxChunkCount == 2

tenantRest == <<graph, related, nFacts, graphFile, turnVars, saved, turns>>

\* what a user writes names its author
NoteOf(user_id) == <<"note of user", user_id>>
EntityOf(user_id) == IF user_id = 1 THEN "Alice" ELSE "Carol"

RECURSIVE AnOrder(_)
AnOrder(S) ==
    IF S = {} THEN <<>>
    ELSE LET x == CHOOSE x \in S : TRUE IN <<x>> \o AnOrder(S \ {x})

Reverse(sq) == [i \in DOMAIN sq |-> sq[Len(sq) + 1 - i]]

\* two of the orders a query can rank a namespace in
Rankings(S) == {AnOrder(S), Reverse(AnOrder(S))}

TenantScopes ==
    { <<Entry("collection", 1)>>, <<Entry("collection", 2)>>,
      <<Entry("document", 1)>>, <<Entry("document", 3)>>,
      <<Entry("document", 2)>>, <<Entry("collection", 1), Entry("document", 1)>> }

TenantInit ==
    /\ GraphIdle
    /\ graphFile = NoFile
    /\ TurnIdle
    /\ saved = EmptyGraph
    /\ files = NoFiles
    /\ chroma = EarlierVault.chroma
    /\ collections = EarlierCollections
    /\ documents = EarlierVault.documents
    /\ nOps = 0
    /\ turns = NoTurns

\* document_service.py lines 154-166
CreateCollection(user_id) ==
    /\ nOps < MaxOps
    /\ nOps' = nOps + 1
    /\ collections' = collections \cup {[id |-> NextId(collections), user_id |-> user_id]}
    /\ call' = [op |-> "create_collection", user |-> user_id]
    /\ UNCHANGED <<files, chroma, documents, tenantRest>>

\* routers/documents.py upload handler: service.upload_document(user.id, ...)
UploadDocument(user_id, collection_id, n, engine) ==
    /\ nOps < MaxOps
    /\ nOps' = nOps + 1
    /\ LET r == upload_document(collections, documents, chroma, user_id,
                                collection_id, n, engine)
       IN  /\ documents' = r.documents
           /\ chroma' = r.chroma
           /\ call' = [op |-> "upload_document", user |-> user_id,
                       raised |-> r.raised, document_id |-> r.document_id,
                       engine |-> engine,
                       before |-> chroma[_get_collection_name(user_id)]]
    /\ UNCHANGED <<files, collections, tenantRest>>

\* routers/documents.py delete handler: service.delete_document(id, user.id)
DeleteDocument(user_id, document_id, engine) ==
    /\ nOps < MaxOps
    /\ nOps' = nOps + 1
    /\ LET r == delete_document(documents, chroma, user_id, document_id, engine)
           found == get_document(documents, document_id, user_id)
       IN  /\ documents' = r.documents
           /\ chroma' = r.chroma
           /\ call' = [op |-> "delete_document", user |-> user_id,
                       document_id |-> document_id, found |-> r.found,
                       requested |-> r.requested, engine |-> engine,
                       chunk_count |-> IF r.found
                                       THEN (CHOOSE d \in found : TRUE).chunk_count
                                       ELSE 0,
                       before |-> chroma[_get_collection_name(user_id)]]
    /\ UNCHANGED <<files, collections, tenantRest>>

\* routers/documents.py lines 92-101: service.delete_collection(id, user.id)
DeleteCollection(user_id, collection_id, engine) ==
    /\ nOps < MaxOps
    /\ nOps' = nOps + 1
    /\ LET r == delete_collection(collections, documents, chroma, user_id,
                                  collection_id, engine)
       IN  /\ collections' = r.collections
           /\ documents' = r.documents
           /\ chroma' = r.chroma
           /\ call' = [op |-> "delete_collection", user |-> user_id,
                       collection_id |-> collection_id, found |-> r.found,
                       engine |-> engine,
                       before |-> chroma[_get_collection_name(user_id)]]
    /\ UNCHANGED <<files, tenantRest>>

\* send_message lines 297-303 for a conversation of this user
BuildRagContext(user_id, scope, ranking) ==
    /\ call' = [op |-> "build_rag_context", user |-> user_id, scope |-> scope,
                ranking |-> ranking, queries |-> <<rag_query(scope, TopK)>>,
                result |-> build_rag_context(scope, TopK, ranking, "ok")]
    /\ UNCHANGED <<storeVars, graph, related, nFacts, graphFile, turnVars>>

\* routers/documents.py lines 204-228
SearchDocuments(user_id, collection_ids, ranking) ==
    /\ call' = [op |-> "search_documents", user |-> user_id,
                collection_ids |-> collection_ids,
                result |-> search_documents(collection_ids, TopK, ranking, "ok")]
    /\ UNCHANGED <<storeVars, graph, related, nFacts, graphFile, turnVars>>

\* GraphService(user_id), add_fact, save(): the graph update of a turn
GraphSession(user_id, outcome) ==
    /\ nOps < MaxOps
    /\ nOps' = nOps + 1
    /\ LET path == _get_graph_path(user_id)
           g == add_fact(_load_or_create_graph(files[path]),
                         EntityOf(user_id), "knows", "Bob", EmptyDict)
       IN  files' = [files EXCEPT ![path] = save(@, g, outcome)]
    /\ call' = [op |-> "save", user |-> user_id, raised |-> save_raises(outcome)]
    /\ UNCHANGED <<chroma, collections, documents, tenantRest>>

\* GraphService(user_id): the graph lookup of a turn
LoadGraph(user_id) ==
    /\ call' = [op |-> "load", user |-> user_id,
                result |-> _load_or_create_graph(files[_get_graph_path(user_id)])]
    /\ UNCHANGED <<storeVars, graph, related, nFacts, graphFile, turnVars>>

\* MemoryService(user_id).embed_message: the embedding step of a turn
EmbedFor(user_id, message_id, outcome) ==
    /\ nOps < MaxOps
    /\ nOps' = nOps + 1
    /\ chroma' = [chroma EXCEPT ![messages_name(user_id)] =
                     embed_message(@, message_id, NoteOf(user_id), outcome)]
    /\ call' = [op |-> "embed_message", user |-> user_id, outcome |-> outcome]
    /\ UNCHANGED <<files, collections, documents, tenantRest>>

\* MemoryService(user_id).search_similar: the memory lookup of a turn
SearchFor(user_id, ranking) ==
    /\ call' = [op |-> "search_similar", user |-> user_id,
                result |-> search_similar(TRUE, chroma[messages_name(user_id)],
                                          ranking, 3, "ok")]
    /\ UNCHANGED <<storeVars, graph, related, nFacts, graphFile, turnVars>>

TenantNext ==
    \/ \E u \in Users : CreateCollection(u)
    \/ \E u \in Users, collection_id \in 0..2, n \in 0..MaxChunkCount,
          engine \in {"ok", "unavailable", "add_raises"} :
          UploadDocument(u, collection_id, n, engine)
    \/ \E u \in Users, document_id \in 1..4,
          engine \in {"ok", "unavailable", "delete_raises"} :
          DeleteDocument(u, document_id, engine)
    \/ \E u \in Users, collection_id \in 1..2, engine \in {"ok", "unavailable"} :
          DeleteCollection(u, collection_id, engine)
    \/ \E u \in Users, scope \in TenantScopes :
          \E ranking \in Rankings(chroma[_get_collection_name(u)]) :
             BuildRagContext(u, scope, ranking)
    \/ \E u \in Users, collection_ids \in {{}, {1}, {2}} :
          \E ranking \in Rankings(chroma[_get_collection_name(u)]) :
             SearchDocuments(u, collection_ids, ranking)
    \/ \E u \in Users, outcome \in {"ok", "dump_fails"} : GraphSession(u, outcome)
    \/ \E u \in Users : LoadGraph(u)
    \/ \E u \in Users, message_id \in 1..2, outcome \in {"ok", "engine_fails"} :
          EmbedFor(u, message_id, outcome)
    \/ \E u \in Users :
          \E ranking \in Rankings(chroma[messages_name(u)]) : SearchFor(u, ranking)

TenantSpec == TenantInit /\ [][TenantNext]_vars


\* what is stored for a user: its graph file and its two namespaces
Namespace(user_id) ==
    <<files[_get_graph_path(user_id)], chroma[messages_name(user_id)],
      chroma[_get_collection_name(user_id)]>>

\* the users whose records an operation returned
ReturnedOwners ==
    CASE call.op = "build_rag_context" ->
           {call.result[i].chunk.owner :
              i \in {j \in DOMAIN call.result : call.result[j].line = "cite"}}
      [] call.op = "search_documents" ->
           {call.result[i].owner : i \in DOMAIN call.result}
      [] call.op = "search_similar" ->
           {call.result[i].content[2] : i \in DOMAIN call.result}
      [] call.op = "load" ->
           {u \in Users : EntityOf(u) \in NodeSet(call.result)}
      [] OTHER -> {}

\* C13: user namespaces never cross: an operation performed for user A
\* leaves the graph file, the message namespace and the document namespace
\* of every other user unchanged, and what it retrieves holds no record
\* stored for another user, also when A's scope or search names
\* collection or document ids owned by B.
C13_NamespacesNeverCross ==
    [][ /\ \A b \in Users : call'.user # b => Namespace(b)' = Namespace(b)
        /\ ReturnedOwners' \subseteq {call'.user} ]_vars

\* user 1 retrieved with a scope or a filter naming what user 2 owns, while
\* both users have documents, notes and a graph stored; or user 1 asked to
\* delete a document of user 2
C13_Witness ==
    /\ call.op \in {"build_rag_context", "search_documents", "delete_document"}
    /\ call.user = 1
    /\ \A u \in Users : chroma[_get_collection_name(u)] # {}
    /\ \/ /\ call.op = "build_rag_context"
          /\ call.scope \in {<<Entry("collection", 2)>>, <<Entry("document", 3)>>}
          /\ \E r \in chroma[_get_collection_name(2)] : r.document_id = 3
       \/ /\ call.op = "search_documents"
          /\ call.collection_ids = {2}
          /\ \E r \in chroma[_get_collection_name(2)] : r.collection_id = 2
       \/ /\ call.op = "delete_document"
          /\ call.document_id = 3
          /\ \E d \in documents : d.id = 3 /\ d.user_id = 2

\* the ids of the delete requests sent to the engine
RequestedIds == UNION {call.requested[i] : i \in DOMAIN call.requested}

\* C14: delete_document for a document whose stored chunk_count is n
\* requests deletion of exactly the n ids doc_<id>_chunk_0 ..
\* doc_<id>_chunk_<n-1>; these are the ids upload_document wrote for the
\* document, and none of them belongs to a document with another id.
C14_DeleteRequestsExactlyTheChunkIds ==
    (call.op = "delete_document" /\ call.found) =>
        /\ RequestedIds = ChunkIds(call.document_id, call.chunk_count)
        /\ Len(call.requested) <= 1
        /\ RequestedIds = {r.id : r \in {x \in call.before :
                                           x.document_id = call.document_id}}
        /\ \A r \in call.before :
              r.id \in RequestedIds => r.document_id = call.document_id

\* the same for a delete_document that reaches the vector engine, without
\* the part about what upload_document wrote
C14_DeleteRequestsWhenEngineReachable ==
    (call.op = "delete_document" /\ call.found /\ call.engine # "unavailable") =>
        /\ RequestedIds = ChunkIds(call.document_id, call.chunk_count)
        /\ Len(call.requested) <= 1
        /\ \A r \in call.before :
              r.id \in RequestedIds => r.document_id = call.document_id


\* C28: a save() that fails leaves the graph file as it was before the
\* call, so a fresh load after it returns what a fresh load returned
\* before it: the graph of the last successful save().
C28_FailedSaveLeavesFileUnchanged ==
    (call.op = "save" /\ call.raised /\ call.before.state = "ok") =>
        /\ graphFile = call.before
        /\ SameGraph(_load_or_create_graph(graphFile),
                     _load_or_create_graph(call.before))


\* C29: if the caller stops draining the stream before it is exhausted, at
\* a content fragment or at the metadata fragment, no persisting step runs:
\* no assistant message is stored, neither message is embedded, the graph
\* is neither modified nor saved; the user's message stays stored.
C29_AbandonedStreamPersistsNothing ==
    pc = "closed" =>
        /\ \A i \in DOMAIN log : ~IsPersisting(log[i])
        /\ \A i \in DOMAIN messages : messages[i].role # "assistant"
        /\ vectors = {}
        /\ graph \in {EmptyGraph, _load_or_create_graph(graphFile)}
        /\ graphFile \in {NoFile, save(NoFile, EarlierGraph, "ok")}
        /\ UserStored

\* the caller stopped at the metadata fragment of an answer that mentions
\* an entity, with both services created
C29_Witness ==
    /\ pc = "closed"
    /\ MetaSent
    /\ extract_entities(full_response) # <<>>
    /\ memory_service = "available"
    /\ graph_service # None


\* the chunks cited by a context, in order
CitedSeq(lines) ==
    LET cites == SelectSeq(lines, LAMBDA l : l.line = "cite")
    IN  [i \in DOMAIN cites |-> cites[i].chunk]

\* C26: build_rag_context issues one vector query for 2 x top_k results,
\* filtered by the scope's collection ids when the scope has collection
\* entries and unfiltered otherwise; when the scope has document entries it
\* keeps only the results whose document_id is a scoped document; it cites
\* the first top_k of what is left, in engine order; with both kinds of
\* entry a chunk is cited only if it passes both filters.
C26_OneOverFetchedQueryThenPostFilter ==
    call.op = "build_rag_context" =>
        LET cids == {call.scope[i].id :
                       i \in {j \in DOMAIN call.scope : call.scope[j].type = "collection"}}
            dids == {call.scope[i].id :
                       i \in {j \in DOMAIN call.scope : call.scope[j].type = "document"}}
            matched == SelectSeq(call.ranking,
                         LAMBDA r : cids = {} \/ r.collection_id \in cids)
            fetched == SubSeq(matched, 1, Min(2 * 3, Len(matched)))
            kept == SelectSeq(fetched, LAMBDA r : dids = {} \/ r.document_id \in dids)
        IN  /\ Len(call.queries) = 1
            /\ call.queries[1].n_results = 2 * 3
            /\ call.queries[1].where = cids
            /\ CitedSeq(call.result) = SubSeq(kept, 1, Min(3, Len(kept)))
            /\ \A i \in DOMAIN call.result :
                  call.result[i].line = "cite" =>
                     /\ cids # {} => call.result[i].chunk.collection_id \in cids
                     /\ dids # {} => call.result[i].chunk.document_id \in dids

\* a scope with a collection and a document entry, where the engine's
\* closest match passes the collection filter and fails the document filter
C26_Witness ==
    /\ call.op = "build_rag_context"
    /\ call.scope = <<Entry("collection", 1), Entry("document", 1)>>
    /\ call.result # <<>>
    /\ call.ranking # <<>>
    /\ call.ranking[1].collection_id = 1
    /\ call.ranking[1].document_id # 1


(***************************************************************************)
(* The document vault while every call of the vector engine succeeds       *)
(***************************************************************************)
VaultNext ==
    \/ \E u \in Users : CreateCollection(u)
    \/ \E u \in Users, collection_id \in 0..3, n \in 0..MaxChunkCount :
          UploadDocument(u, collection_id, n, "ok")
    \/ \E u \in Users, document_id \in 1..4 : DeleteDocument(u, document_id, "ok")
    \/ \E u \in Users, collection_id \in 1..3 : DeleteCollection(u, collection_id, "ok")

VaultSpec == TenantInit /\ [][VaultNext]_vars

\* C30: while every vector-engine call succeeds, after any sequence of
\* upload_document, delete_document and delete_collection calls the vectors
\* of a user's document namespace are exactly the chunks doc_<id>_chunk_<i>,
\* 0 <= i < chunk_count, of the documents of that user that have a row.
C30_NamespaceHoldsExactlyTheChunksOfRows ==
    \A u \in Users :
        /\ {r.id : r \in chroma[_get_collection_name(u)]} =
              UNION {ChunkIds(d.id, d.chunk_count) :
                       d \in {x \in documents : x.user_id = u}}
        /\ \A r \in chroma[_get_collection_name(u)] :
              /\ r.owner = u
              /\ r.id = ChunkId(r.document_id, r.chunk_index)

\* a collection with indexed documents was deleted, its owner keeps another
\* document, and a document id freed by a delete was given to a new upload
C30_Witness ==
    /\ call.op = "upload_document"
    /\ call.raised = None
    /\ call.before # chroma[_get_collection_name(call.user)]
    /\ \E c \in EarlierCollections : c \notin collections
    /\ \E d \in documents : d.id = call.document_id /\ d \notin EarlierVault.documents
    /\ \E d \in EarlierVault.documents : d.id = call.document_id


(***************************************************************************)
(* Two turns of one user under way at once.  Each turn creates its         *)
(* GraphService while RETRIEVING (chat.py lines 279-288), awaits the       *)
(* stream, and in PERSISTING adds the facts of its answer and saves (lines *)
(* 403-414, no await in between).  Both work on the same graph file.       *)
(***************************************************************************)
TurnIds == {1, 2}
Responses == {<<>>, <<"I met Alice. ">>, <<"She knows Bob. ">>}

\* lines 406-411: one mentioned_in fact per entity of the answer
RECURSIVE mentioned_in(_, _)
mentioned_in(g, entities) ==
    IF entities = <<>> THEN g
    ELSE mentioned_in(add_fact(g, Head(entities), "mentioned_in", ConversationNode,
                               EmptyDict),
                      Tail(entities))

ConcurrentInit ==
    /\ GraphIdle
    /\ graphFile \in {NoFile, save(NoFile, EarlierGraph, "ok")}
    /\ TurnIdle
    /\ saved = EmptyGraph
    /\ files = NoFiles
    /\ chroma = EmptyChroma
    /\ collections = {}
    /\ documents = {}
    /\ nOps = 0
    /\ turns = [t \in TurnIds |->
                  [pc |-> "retrieving", graph_service |-> None, graph |-> EmptyGraph,
                   loaded |-> EmptyGraph, response |-> <<>>, loads |-> 0,
                   saves |-> 0, saved |-> FALSE]]

concurrentRest == <<graph, related, nFacts, turnVars, files, chroma, collections,
                    documents, nOps>>

\* lines 279-288: GraphService(user.id) loads the file as it is now
TurnRetrieve(t, outcome) ==
    /\ turns[t].pc = "retrieving"
    /\ turns' = [turns EXCEPT ![t] =
          IF outcome = "ok"
          THEN [@ EXCEPT !.pc = "generating", !.graph_service = "created",
                         !.graph = _load_or_create_graph(graphFile),
                         !.loaded = _load_or_create_graph(graphFile),
                         !.loads = @ + 1]
          ELSE [@ EXCEPT !.pc = "generating"]]
    /\ UNCHANGED <<graphFile, saved, call, concurrentRest>>

\* the file is loaded again before the facts are added
TurnPersistReloading(t, response, outcome) ==
    /\ turns[t].pc = "generating"
    /\ turns[t].graph_service # None
    /\ LET g == mentioned_in(_load_or_create_graph(graphFile), extract_entities(response))
       IN  /\ graphFile' = save(graphFile, g, outcome)
           /\ saved' = IF outcome = "ok" THEN g ELSE saved
           /\ turns' = [turns EXCEPT ![t] =
                          [@ EXCEPT !.pc = "done", !.graph = g, !.response = response,
                                    !.saves = @ + 1, !.saved = (outcome = "ok")]]
    /\ call' = [op |-> "save", turn |-> t, raised |-> save_raises(outcome)]
    /\ UNCHANGED concurrentRest

\* lines 403-414 for a turn that has a GraphService
TurnPersist(t, response, outcome) ==
    /\ turns[t].pc = "generating"
    /\ turns[t].graph_service # None
    /\ LET g == mentioned_in(turns[t].graph, extract_entities(response))
       IN  /\ graphFile' = save(graphFile, g, outcome)
           /\ saved' = IF outcome = "ok" THEN g ELSE saved
           /\ turns' = [turns EXCEPT ![t] =
                          [@ EXCEPT !.pc = "done", !.graph = g, !.response = response,
                                    !.saves = @ + 1, !.saved = (outcome = "ok")]]
    /\ call' = [op |-> "save", turn |-> t, raised |-> save_raises(outcome)]
    /\ UNCHANGED concurrentRest

\* line 404: a turn without GraphService updates nothing
TurnSkipsGraph(t, response) ==
    /\ turns[t].pc = "generating"
    /\ turns[t].graph_service = None
    /\ turns' = [turns EXCEPT ![t] = [@ EXCEPT !.pc = "done", !.response = response]]
    /\ UNCHANGED <<graphFile, saved, call, concurrentRest>>

ConcurrentNext ==
    \/ \E t \in TurnIds, outcome \in {"ok", "create_raises"} : TurnRetrieve(t, outcome)
    \/ \E t \in TurnIds, response \in Responses,
          outcome \in {"ok", "open_fails", "dump_fails"} :
          TurnPersist(t, response, outcome)
    \/ \E t \in TurnIds, response \in Responses : TurnSkipsGraph(t, response)

ConcurrentSpec == ConcurrentInit /\ [][ConcurrentNext]_vars

BothSaved == \A t \in TurnIds : turns[t].pc = "done" /\ turns[t].saved

\* C21: concurrent turns of one user are unguarded and save() is
\* last-writer-wins: a turn loads its graph once while retrieving and saves
\* once while persisting, and when two turns that both saved have finished
\* the graph file holds the in-memory graph of the turn that saved last:
\* the snapshot that turn loaded plus its own facts.
C21_LastWriterWins ==
    /\ turns # NoTurns =>
          \A t \in TurnIds :
             /\ turns[t].loads <= 1 /\ turns[t].saves <= 1
             /\ turns[t].saved => (turns[t].loads = 1 /\ turns[t].saves = 1)
    /\ (turns # NoTurns /\ BothSaved) =>
          /\ graphFile = [state |-> "ok", data |-> node_link_data(turns[call.turn].graph)]
          /\ SameGraph(turns[call.turn].graph,
                       mentioned_in(turns[call.turn].loaded,
                                    extract_entities(turns[call.turn].response)))

\* both turns loaded before either saved, and the fact of the turn that
\* saved first is not in the file
C21_Witness ==
    /\ turns # NoTurns
    /\ BothSaved
    /\ \A t \in TurnIds : turns[t].loaded = turns[call.turn].loaded
    /\ \E t \in TurnIds :
          \E n \in NodeSet(turns[t].graph) :
             n \notin NodeSet(_load_or_create_graph(graphFile))


(***************************************************************************)
(* chunk_text(text, chunk_size, overlap): a text is a sequence of          *)
(* characters; indices are Python's, counted from 0.                       *)
(***************************************************************************)
MaxLen == 8
MaxChunkSize == 7

Chars == {".", " ", "\n"}
Whitespace == {" ", "\n"}
Texts == UNION {[1..n -> Chars] : n \in 0..MaxLen}

\* a slice bound as Python normalises it: negative bounds count from the end
SliceIndex(i, n) ==
    IF i < 0 THEN (IF n + i < 0 THEN 0 ELSE n + i)
    ELSE IF i > n THEN n ELSE i

\* text[a:b]
Slice(text, a, b) ==
    LET lo == SliceIndex(a, Len(text))
        hi == SliceIndex(b, Len(text))
    IN  IF lo >= hi THEN <<>> ELSE SubSeq(text, lo + 1, hi)

\* text.rfind(sub, a, b) for a pattern of two characters: the highest index
\* at which sub lies within text[a:b], or -1
rfind(text, sub, a, b) ==
    LET lo == SliceIndex(a, Len(text))
        hi == SliceIndex(b, Len(text))
        at == {i \in lo..(hi - 2) : text[i + 1] = sub[1] /\ text[i + 2] = sub[2]}
    IN  IF at = {} THEN -1 ELSE CHOOSE i \in at : \A j \in at : j <= i

\* the window is kept as it is
keep_whitespace(text) == text

\* str.strip()
strip(text) ==
    LET ink == {i \in DOMAIN text : text[i] \notin Whitespace}
    IN  IF ink = {} THEN <<>>
        ELSE SubSeq(text, CHOOSE i \in ink : \A j \in ink : i <= j,
                          CHOOSE i \in ink : \A j \in ink : j <= i)

\* lines 83-93 with the midpoint test left out: any break in the window cuts
window_end_at_any_break(text, chunk_size, start) ==
    LET end == start + chunk_size
        para_break == rfind(text, <<"\n", "\n">>, start, end)
        sentence_break == rfind(text, <<".", " ">>, start, end)
    IN  IF ~(end < Len(text)) THEN end
        ELSE IF para_break > start THEN para_break + 2
        ELSE IF sentence_break > start THEN sentence_break + 2
        ELSE end

\* lines 83-93: where the window that starts at start is cut
window_end(text, chunk_size, start) ==
    LET end == start + chunk_size
        para_break == rfind(text, <<"\n", "\n">>, start, end)
        sentence_break == rfind(text, <<".", " ">>, start, end)
    IN  IF ~(end < Len(text)) THEN end
        ELSE IF para_break > start + (chunk_size \div 2) THEN para_break + 2
        ELSE IF sentence_break > start + (chunk_size \div 2) THEN sentence_break + 2
        ELSE end

\* the next window starts after the cut
RECURSIVE chunk_loop_skipping(_, _, _, _, _)
chunk_loop_skipping(text, chunk_size, overlap, start, windows) ==
    IF ~(start < Len(text)) THEN [returned |-> TRUE, windows |-> windows]
    ELSE LET end == window_end(text, chunk_size, start)
         IN  chunk_loop_skipping(text, chunk_size, overlap,
                        IF end < Len(text) THEN end + overlap ELSE Len(text),
                        Append(windows, [start |-> start, end |-> end]))

\* lines 81-102: the while loop from a given start; windows are the pairs
\* (start, end) of the iterations so far.  The loop's only state is start,
\* so it runs forever exactly when a start comes back: returned is FALSE
\* then and windows ends with the iteration that repeats.
RECURSIVE chunk_loop(_, _, _, _, _)
chunk_loop(text, chunk_size, overlap, start, windows) ==
    IF ~(start < Len(text)) THEN [returned |-> TRUE, windows |-> windows]
    ELSE IF \E i \in DOMAIN windows : windows[i].start = start
         THEN [returned |-> FALSE, windows |-> windows]
    ELSE LET end == window_end(text, chunk_size, start)
         IN  chunk_loop(text, chunk_size, overlap,
                        IF end < Len(text) THEN end - overlap ELSE Len(text),
                        Append(windows, [start |-> start, end |-> end]))

\* lines 95-97: the stripped window, kept when it is not empty
chunks_of(text, windows) ==
    LET all == [i \in DOMAIN windows |->
                  strip(Slice(text, windows[i].start, windows[i].end))]
    IN  SelectSeq(all, LAMBDA c : c # <<>>)

chunk_text(text, chunk_size, overlap) ==
    IF text = <<>> THEN [returned |-> TRUE, windows |-> <<>>, chunks |-> <<>>]
    ELSE LET run == chunk_loop(text, chunk_size, overlap, 0, <<>>)
         IN  [returned |-> run.returned, windows |-> run.windows,
              chunks |-> chunks_of(text, run.windows)]

\* chunk_text is called once, with 0 <= overlap < chunk_size
ChunkText(text, chunk_size, overlap) ==
    /\ call = NoCall
    /\ call' = [op |-> "chunk_text", text |-> text, chunk_size |-> chunk_size,
                overlap |-> overlap, result |-> chunk_text(text, chunk_size, overlap)]
    /\ UNCHANGED <<graph, related, nFacts, graphFile, turnVars, storeVars>>

ChunkNext ==
    /\ call = NoCall
    /\ \E text \in Texts, chunk_size \in 1..MaxChunkSize :
          \E overlap \in 0..(chunk_size - 1) : ChunkText(text, chunk_size, overlap)

ChunkSpec == GraphInit /\ [][ChunkNext]_vars

\* C27: chunk_text terminates for every text whenever 0 <= overlap <
\* chunk_size: every loop iteration starts its window further right than
\* the one before, until the start reaches len(text).
C27_ChunkTextTerminates ==
    call.op = "chunk_text" =>
        /\ call.result.returned
        /\ \A i \in DOMAIN call.result.windows, j \in DOMAIN call.result.windows :
              i < j => call.result.windows[i].start < call.result.windows[j].start


Returned == call.op = "chunk_text" /\ call.result.returned
Windows == call.result.windows

\* the indices of the text that window w holds
Covered(w) ==
    {j \in 0..(Len(call.text) - 1) :
        SliceIndex(w.start, Len(call.text)) <= j /\ j < SliceIndex(w.end, Len(call.text))}

\* C22: whenever chunk_text returns for 0 <= overlap < chunk_size, its
\* windows start at 0, each next window starts at or before the previous
\* cut, and the last window ends at len(text), so that every character of
\* the text that is not whitespace occurs in at least one chunk.
C22_ChunksCoverTheText ==
    (Returned /\ call.text # <<>>) =>
        /\ Windows # <<>>
        /\ Windows[1].start = 0
        /\ \A i \in 1..(Len(Windows) - 1) : Windows[i + 1].start <= Windows[i].end
        /\ Windows[Len(Windows)].end >= Len(call.text)
        /\ \A j \in 0..(Len(call.text) - 1) :
              call.text[j + 1] \notin Whitespace =>
                 \E i \in DOMAIN Windows :
                    /\ j \in Covered(Windows[i])
                    /\ \E k \in DOMAIN call.result.chunks :
                          call.result.chunks[k] =
                             strip(Slice(call.text, Windows[i].start, Windows[i].end))

\* three windows with overlap, of which one holds only whitespace
C22_Witness ==
    /\ Returned
    /\ Len(Windows) = 3
    /\ call.overlap > 0
    /\ Len(call.result.chunks) = 2
    /\ \E j \in DOMAIN call.text : call.text[j] \notin Whitespace

\* C23 as claimed: chunk_text("") returns [], and for every non-empty text
\* shorter than the chunk size chunk_text returns exactly one chunk, equal
\* to the trimmed input.
C23_ShortTextIsOneChunk ==
    call.op = "chunk_text" =>
        /\ call.text = <<>> => (call.result.returned /\ call.result.chunks = <<>>)
        /\ (call.text # <<>> /\ Len(call.text) < call.chunk_size) =>
              /\ call.result.returned
              /\ call.result.chunks = <<strip(call.text)>>

\* C23 amended: chunk_text("") returns []; for a text shorter than the
\* chunk size that holds a character other than whitespace chunk_text
\* returns exactly one chunk, equal to the trimmed input; for a text
\* shorter than the chunk size that holds only whitespace it returns [].
C23_ShortTextIsOneChunkUnlessBlank ==
    call.op = "chunk_text" =>
        /\ call.text = <<>> => (call.result.returned /\ call.result.chunks = <<>>)
        /\ (call.text # <<>> /\ Len(call.text) < call.chunk_size) =>
              /\ call.result.returned
              /\ call.result.chunks =
                    IF \E j \in DOMAIN call.text : call.text[j] \notin Whitespace
                    THEN <<strip(call.text)>> ELSE <<>>

\* a short text with whitespace on both sides of its content
C23_Witness ==
    /\ call.op = "chunk_text"
    /\ Len(call.text) < call.chunk_size
    /\ Len(call.text) >= 3
    /\ call.text[1] \in Whitespace
    /\ call.text[Len(call.text)] \in Whitespace
    /\ Len(call.result.chunks) = 1
    /\ Len(call.result.chunks[1]) < Len(call.text)

\* the last place in the window from start where the two characters of
\* pattern begin and end inside it, or -1
LastBreak(pattern, start) ==
    LET at == {k \in start..(start + call.chunk_size - 2) :
                 /\ k + 2 <= Len(call.text)
                 /\ call.text[k + 1] = pattern[1]
                 /\ call.text[k + 2] = pattern[2]}
    IN  IF at = {} THEN -1 ELSE CHOOSE k \in at : \A j \in at : j <= k

PastMidpoint(k, start) == k >= 0 /\ 2 * k > 2 * start + call.chunk_size

\* where C25 puts the cut of a window that does not reach the end
Cut(start) ==
    LET para == LastBreak(<<"\n", "\n">>, start)
        sentence == LastBreak(<<".", " ">>, start)
    IN  IF PastMidpoint(para, start) THEN para + 2
        ELSE IF PastMidpoint(sentence, start) THEN sentence + 2
        ELSE start + call.chunk_size

\* C25: in each window that does not reach the end of the text chunk_text
\* cuts just after the last paragraph break of the window if that break
\* lies past the window midpoint, else just after the last ". " of the
\* window if it lies past the midpoint, else at exactly chunk_size
\* characters; the next window starts at cut - overlap; no chunk is longer
\* than chunk_size characters.
C25_CutAtBreakPastMidpoint ==
    call.op = "chunk_text" =>
        /\ \A i \in DOMAIN Windows :
              Windows[i].start + call.chunk_size < Len(call.text) =>
                 /\ Windows[i].end = Cut(Windows[i].start)
                 /\ i < Len(Windows) =>
                       Windows[i + 1].start = Windows[i].end - call.overlap
        /\ \A k \in DOMAIN call.result.chunks :
              Len(call.result.chunks[k]) <= call.chunk_size

\* a window cut at a sentence break before chunk_size characters, its
\* paragraph break lying before the midpoint, followed by a window that
\* starts overlap characters before the cut
C25_Witness ==
    /\ Returned
    /\ call.overlap > 0
    /\ \E i \in DOMAIN Windows :
          /\ i < Len(Windows)
          /\ Windows[i].end < Windows[i].start + call.chunk_size
          /\ Windows[i].end = LastBreak(<<".", " ">>, Windows[i].start) + 2
          /\ LastBreak(<<"\n", "\n">>, Windows[i].start) >= 0

(***************************************************************************)
(* GraphService.extract_entities on the characters of a message            *)
(***************************************************************************)
MaxTokens == 4

\* the letters the messages of the model are written with
Upper == {"B", "I", "T"}
Lower == {"a", "b", "h", "i", "o", "p", "t"}
Letters == Upper \cup Lower
Digits == {"0", "1", "2", "3", "4", "5", "6", "7", "8", "9"}
\* \w
WordChars == Letters \cup Digits \cup {"_"}
Alphabet == WordChars \cup Whitespace \cup
            {".", ",", ";", ":", "!", "?", "@", "/", "%", "+", "-", "|",
             "<", ">", "\"", "'", ")", "]"}

\* str.lower
lower(word) ==
    [k \in DOMAIN word |->
        CASE word[k] = "B" -> "b" [] word[k] = "I" -> "i" [] word[k] = "T" -> "t"
          [] OTHER -> word[k]]

\* the words of COMMON_WORDS that can be written with Lower
COMMON_WORDS ==
    {<<"a">>, <<"i">>, <<"i", "t">>, <<"a", "t">>, <<"t", "o">>,
     <<"t", "h", "a", "t">>}

Vocabulary ==
    {<<"I", "t">>, <<"T", "i">>, <<"B", "o", ",">>, <<"a", "t">>,
     <<"T", "i", ".">>, <<"T">>,
     <<"b", "@", "i", ".", "t", "o">>,
     <<"B", "o", "@", "T", "i", ".", "t", "o">>,
     <<"h", "t", "t", "p", ":", "/", "/", "t", ".", "i", "o", ",">>}

\* " ".join(words)
RECURSIVE join(_)
join(words) ==
    IF words = <<>> THEN <<>>
    ELSE IF Len(words) = 1 THEN words[1]
    ELSE words[1] \o <<" ">> \o join(Tail(words))

\* the messages: nothing, a blank, and up to MaxTokens words of the
\* vocabulary separated by blanks
Contents ==
    {<<>>, <<" ">>, <<" ", "\n">>} \cup
    {join(words) : words \in UNION {[1..n -> Vocabulary] : n \in 1..MaxTokens}}

\* the last position of the longest run of characters of a class that
\* starts at position p (p - 1 when there is none): a greedy "+" or "*"
RunEnd(text, p, class) ==
    CHOOSE e \in (p - 1)..Len(text) :
        /\ \A k \in p..e : text[k] \in class
        /\ e = Len(text) \/ text[e + 1] \notin class

\* \b before position p
word_boundary(text, p) ==
    LET IsWord(q) == q \in 1..Len(text) /\ text[q] \in WordChars
    IN  IsWord(p - 1) # IsWord(p)

HasAt(text, p, literal) ==
    /\ p + Len(literal) - 1 <= Len(text)
    /\ SubSeq(text, p, p + Len(literal) - 1) = literal

SetMax(S) == CHOOSE x \in S : \A y \in S : y <= x

\* where the match of a pattern that starts at position s ends, 0 when the
\* pattern does not match there
match_end(pattern, text, s) ==
    IF pattern = "email"
    THEN \* \b[A-Za-z0-9._%+-]+@[A-Za-z0-9.-]+\.[A-Z|a-z]{2,}\b
         LET l == RunEnd(text, s, Letters \cup Digits \cup {".", "_", "%", "+", "-"})
             d == RunEnd(text, l + 2, Letters \cup Digits \cup {".", "-"})
             Ends(p) == {e \in (p + 2)..RunEnd(text, p + 1, Letters \cup {"|"}) :
                            word_boundary(text, e + 1)}
             dots == {p \in (l + 3)..d : text[p] = "." /\ Ends(p) # {}}
         IN  IF \/ ~word_boundary(text, s)
                \/ l < s
                \/ ~HasAt(text, l + 1, <<"@">>)
                \/ dots = {}
             THEN 0
             ELSE SetMax(Ends(SetMax(dots)))
    ELSE \* https?://[^\s<>"')\]]+(?<![.,;:!?])
         LET http == <<"h", "t", "t", "p">>
             body == IF HasAt(text, s, http \o <<"s", ":", "/", "/">>) THEN s + 8
                     ELSE IF HasAt(text, s, http \o <<":", "/", "/">>) THEN s + 7
                     ELSE 0
             r == RunEnd(text, body,
                         Alphabet \ (Whitespace \cup {"<", ">", "\"", "'", ")", "]"}))
             ends == {e \in body..r : text[e] \notin {".", ",", ";", ":", "!", "?"}}
         IN  IF body = 0 \/ ends = {} THEN 0 ELSE SetMax(ends)

\* re.finditer: the matches from left to right, none overlapping another
RECURSIVE finditer(_, _, _)
finditer(pattern, text, s) ==
    IF s > Len(text) THEN <<>>
    ELSE LET e == match_end(pattern, text, s)
         IN  IF e = 0 THEN finditer(pattern, text, s + 1)
             ELSE <<SubSeq(text, s, e)>> \o finditer(pattern, text, e + 1)

\* re.split(r'[.!?]+\s*', text), the piece being read starting at from
RECURSIVE re_split(_, _, _)
re_split(text, s, from) ==
    IF s > Len(text) THEN <<SubSeq(text, from, Len(text))>>
    ELSE IF text[s] \in {".", "!", "?"}
    THEN LET e == RunEnd(text, RunEnd(text, s, {".", "!", "?"}) + 1, Whitespace)
         IN  <<SubSeq(text, from, s - 1)>> \o re_split(text, e + 1, e + 1)
    ELSE re_split(text, s + 1, from)

\* str.split()
RECURSIVE split(_, _)
split(sentence, s) ==
    IF s > Len(sentence) THEN <<>>
    ELSE IF sentence[s] \in Whitespace THEN split(sentence, s + 1)
    ELSE LET e == RunEnd(sentence, s, Alphabet \ Whitespace)
         IN  <<SubSeq(sentence, s, e)>> \o split(sentence, e + 1)

\* re.sub(r'[^\w]', '', word)
clean_word(word) == SelectSeq(word, LAMBDA c : c \in WordChars)

\* the test made of a word and of the words after it
qualifies(word) ==
    /\ Len(clean_word(word)) >= 2
    /\ clean_word(word)[1] \in Upper
    /\ lower(clean_word(word)) \notin COMMON_WORDS

\* entities.append and seen.add, unless the value is in seen
add_entity(entities, type, value) ==
    IF \E k \in DOMAIN entities : entities[k].value = value THEN entities
    ELSE Append(entities, [type |-> type, value |-> value])

RECURSIVE add_matches(_, _, _)
add_matches(entities, type, matches) ==
    IF matches = <<>> THEN entities
    ELSE add_matches(add_entity(entities, type, Head(matches)), type, Tail(matches))

\* the inner while loop: the first j at which the run of words stops
RECURSIVE run_stop(_, _)
run_stop(words, j) ==
    IF j <= Len(words) /\ qualifies(words[j]) THEN run_stop(words, j + 1) ELSE j

never_first_word(i) == FALSE

is_first_word(i) == i = 1

\* the while loop over the words of one sentence
RECURSIVE scan_words(_, _, _)
scan_words(words, i, entities) ==
    IF i > Len(words) THEN entities
    ELSE IF qualifies(words[i])
    THEN LET j == run_stop(words, i + 1)
             entity_words == [k \in 1..(j - i) |-> clean_word(words[i + k - 1])]
         IN  IF Len(entity_words) > 1
             THEN scan_words(words, j, add_entity(entities, "entity", join(entity_words)))
             ELSE IF ~is_first_word(i)
             THEN scan_words(words, i + 1,
                             add_entity(entities, "entity", clean_word(words[i])))
             ELSE scan_words(words, i + 1, entities)
    ELSE scan_words(words, i + 1, entities)

\* the for loop over the sentences
RECURSIVE scan_sentences(_, _)
scan_sentences(sentences, entities) ==
    IF sentences = <<>> THEN entities
    ELSE scan_sentences(Tail(sentences),
                        IF strip(Head(sentences)) = <<>> THEN entities
                        ELSE scan_words(split(Head(sentences), 1), 1, entities))

content_entities(text) ==
    IF text = <<>> \/ strip(text) = <<>> THEN <<>>
    ELSE scan_sentences(
            re_split(text, 1, 1),
            add_matches(add_matches(<<>>, "email", finditer("email", text, 1)),
                        "url", finditer("url", text, 1)))

\* extract_entities is called once with a message
ExtractEntities(text) ==
    /\ call = NoCall
    /\ call' = [op |-> "extract_entities", text |-> text,
                result |-> content_entities(text)]
    /\ UNCHANGED <<graph, related, nFacts, graphFile, turnVars, storeVars>>

EntityNext ==
    /\ call = NoCall
    /\ \E text \in Contents : ExtractEntities(text)

EntitySpec == GraphInit /\ [][EntityNext]_vars

Typed(type, values) == [k \in DOMAIN values |-> [type |-> type, value |-> values[k]]]

\* the runs of consecutive qualifying words of a sentence that cannot be
\* made longer, from left to right, without the run that is only the first
\* word
MaximalRuns(words) ==
    LET n == Len(words)
        R == {r \in (1..n) \X (1..n) :
                /\ r[1] <= r[2]
                /\ \A k \in r[1]..r[2] : qualifies(words[k])
                /\ r[1] = 1 \/ ~qualifies(words[r[1] - 1])
                /\ r[2] = n \/ ~qualifies(words[r[2] + 1])
                /\ r # <<1, 1>>}
        InOrder == CHOOSE f \in [1..Cardinality(R) -> R] :
                      \A a, b \in 1..Cardinality(R) : a < b => f[a][1] < f[b][1]
    IN  [k \in 1..Cardinality(R) |->
            join([m \in 1..(InOrder[k][2] - InOrder[k][1] + 1) |->
                     clean_word(words[InOrder[k][1] + m - 1])])]

RECURSIVE GenericValues(_)
GenericValues(sentences) ==
    IF sentences = <<>> THEN <<>>
    ELSE MaximalRuns(split(Head(sentences), 1)) \o GenericValues(Tail(sentences))

\* every value found, duplicates included: emails, then URLs, then the
\* generic entities sentence by sentence
Candidates(text) ==
    Typed("email", finditer("email", text, 1))
        \o Typed("url", finditer("url", text, 1))
        \o Typed("entity", GenericValues(re_split(text, 1, 1)))

\* a sequence without the elements whose value occurred earlier in it
FirstOccurrences(sq) ==
    LET keep == {i \in DOMAIN sq : \A j \in 1..(i - 1) : sq[j].value # sq[i].value}
        nth == CHOOSE f \in [1..Cardinality(keep) -> keep] :
                  \A a, b \in 1..Cardinality(keep) : a < b => f[a] < f[b]
    IN  [k \in 1..Cardinality(keep) |-> sq[nth[k]]]

\* C24: extract_entities returns the emails, then the URLs, then the generic
\* entities of the text, each value once at the place of its first
\* occurrence; a generic entity is a run of consecutive qualifying words of
\* one sentence that cannot be extended, joined by blanks, and the run that
\* is only the first word of a sentence is left out; a text that is empty or
\* blank gives the empty list.
C24_ExtractEntitiesIsTheAlgorithm ==
    call.op = "extract_entities" =>
        /\ call.result = FirstOccurrences(Candidates(call.text))
        /\ (\A k \in DOMAIN call.text : call.text[k] \in Whitespace)
               => call.result = <<>>

\* a message with an address given twice and a name of two words: the
\* address is listed once, before the name
C24_Witness ==
    /\ call.op = "extract_entities"
    /\ Len(call.result) = 2
    /\ call.result[1].type = "email"
    /\ call.result[2].type = "entity"
    /\ \E k \in DOMAIN call.result[2].value : call.result[2].value[k] = " "
    /\ Len(Candidates(call.text)) > Len(call.result)
====
